---- MODULE Spec2Model ----
(***************************************************************************)
(* A model of doracxx's build session: main() and compile_node() of        *)
(* build_cxx_node.py, the executor run(), the toolchain selection, the     *)
(* dependency resolution of dependencies.py and the assembly of the        *)
(* compiler command.                                                       *)
(*                                                                         *)
(* File names, flags and compiler names are sequences of one-character     *)
(* strings, so that endswith / startswith / replace / slicing are computed *)
(* the way the Python code computes them.                                  *)
(***************************************************************************)
EXTENDS Naturals, Integers, Sequences, FiniteSets, TLC

VARIABLES
    \* ---- build session (main, compile_node) ----
    pc,             \* position of the session in main()/compile_node()
    exc,            \* the exception in flight ("none" when there is none)
    exitStatus,     \* -1 while the session runs, else the status of sys.exit
    artifact,       \* does final_out_path exist on disk
    stageLog,       \* the stages begun and ended so far, in order
    \* ---- executor run() and the compiler process ----
    runPc,          \* position inside run()
    capture_output, \* run()'s capture_output argument
    timeout,        \* run()'s timeout argument (config.build.build_timeout)
    clock,          \* time elapsed since the process was spawned
    waitStart,      \* clock value when process.wait(timeout) was entered
    procState,      \* "none" | "running" | "exited" | "killed"
    procRc,         \* return code of the process
    stdoutOpen,     \* is the write end of the stdout pipe still open
    pipeLines,      \* lines written by the process and not read yet
    procEndClock,   \* clock value when the process ended (-1 before)
    \* ---- toolchain selection ----
    os_name,        \* os.name: "nt" or "posix"
    env_CXX,        \* os.environ.get("CXX"), <<>> when unset or empty
    env_CXX_COMPILER, \* os.environ.get("CXX_COMPILER"), <<>> when unset
    preferred_toolchain, \* config.build.toolchain, "none" without a config
    install_clang,  \* config.build.install_clang (FALSE without a config)
    pathFiles,      \* the executable files found on PATH
    cc,             \* the selected compiler, <<>> while there is none
    kind,           \* "msvc", "gcc" or "none" (Python None)
    \* ---- dependency resolution (DependencyManager) ----
    dependencies,   \* config.dependencies, in declaration order
    depIdx,         \* how many dependencies the loop has resolved
    depCur,         \* index of the dependency processed last (0: none yet)
    probe,          \* what the host answered while depCur was processed
    pkg_config_tool, \* is the pkg-config executable on the host's PATH
    resolved_deps,  \* self.resolved_deps, in order of resolution
    dep_include_dirs, \* self.include_dirs
    dep_lib_dirs,   \* self.lib_dirs
    dep_libraries,  \* self.libraries
    \* ---- artifact discovery and the glue sources ----
    bridgeTree,     \* the build-output tree under the Dora target directory
    libDirFiles,    \* the files of <dora_target>/<profile> (lib_dir)
    srcs,           \* the sources to compile (strings)
    include_dirs,   \* the include directories of compile_node (strings)
    generated_cc,   \* the generated glue sources discovered (paths)
    filtered,       \* the glue sources kept for compilation (paths)
    \* ---- build configuration and the assembled command ----
    config_present, \* was a config loaded (config is not None)
    build_timeout,  \* config.build.build_timeout
    cxxflags,       \* config.build.cxxflags
    ldflags,        \* config.build.ldflags
    suppress_warnings, \* config.build.suppress_warnings
    verbose_deps,   \* auto_suppress_verbose_deps and a dependency key that
                    \* names rs_driver, opencv, pcl or boost
    cfg_include_dirs, \* config.build.include_dirs
    cfg_lib_dirs,   \* config.build.lib_dirs
    cfg_libraries,  \* config.build.libraries
    sources,        \* config.build.sources (<<>> for None)
    exclude_sources, \* config.build.exclude_sources (<<>> for None)
    document,       \* what doracxx.toml declares, before it is loaded
    nodeFiles,      \* the files of the node directory, as relative paths
    \* cache.py: the versioned cache paths
    cache_fn,       \* the last call: "none", "dora" or "arrow"
    cache_url,      \* its url argument (<<>> for None)
    cache_rev,      \* its rev argument (<<>> for None)
    cache_path,     \* the directory name it returned, under ~/.doracxx
    safe_name,      \* what sanitize_for_filesystem returned to it
    remote,         \* the tags of the remote repository, and its reach
    remote_changed, \* the remote changed since the last call
    repeated,       \* the last call repeated the one before on a changed remote
    \* dependencies.py: the dependency cache across invocations of the tool
    reusePc,        \* "idle", "resolve", "building", "done" or "failed"
    invocation,     \* how many processes were started
    reuse_decl,     \* the declared dependency, the same in every invocation
    path_hash,      \* hash(str(source_path)) in the running process
    repo_dirs,      \* the repository directories of the cache
    install_dirs,   \* the install directories of the cache that hold something
    did_clone,      \* the running process cloned
    did_build,      \* the running process built or set the headers up
    install_dir,    \* the install directory the running process uses
    prev_install,   \* the one the process before it left, <<>> if none
    build_step,     \* the external build command that runs, 0 if none
    build_proc,     \* "none", "running", or its return code once it exited
    \* ensure_arrow_prepared and find_arrow_artifacts
    arrowPc,        \* "idle", "ensure", "find" or "done"
    arrowLibFiles,  \* the files of <install>/lib, each with what it is
    arrow_has_include, \* <install>/include/arrow exists
    arrow_built,    \* the install directory was built by the tool
    arrow_kinds,    \* what the files are that the libraries were taken from
    \* the Dora target directory of a session: main, ensure_dora_prepared
    doraPc,         \* "idle", "main", "compile", "discover", "vendor", "done"
    dora_rev,       \* the pinned revision, <<>> for None
    explicit_target, \* --dora-target or DORA_TARGET_DIR is given
    no_auto_prepare, \* --no-auto-prepare is given
    dora_target,    \* the directory held in dora_target, <<>> before
    dora_disk,      \* the directories on disk: what each of them holds
    resolved_paths, \* the cache paths resolved for (dora_git, dora_rev)
    prepared,       \* the cache entries cloned or updated by the session
    scanned_dir,    \* the directory given to find_cxxbridge_artifacts
    vendor_dir,     \* the directory searched for the companion headers
    \* concurrent sessions that resolve one git dependency
    racePc,         \* each session's position in _resolve_git_dependency
    raceEntry,      \* the cache directory: "absent", "partial", "complete"
    raceSaw,        \* what each session's cache_path.exists() looked at
    raceInstall,    \* the install directory: "absent", "empty", "populated"
    raceBuilt,      \* the sessions that built or set up the install directory
    arrow_include_dirs, arrow_lib_dirs, arrow_libraries,
    cmd             \* the command handed to run()

sessVars == <<pc, exc, exitStatus, artifact, stageLog>>
runVars  == <<runPc, capture_output, timeout, clock, waitStart, procState,
              procRc, stdoutOpen, pipeLines, procEndClock>>
tcVars   == <<os_name, env_CXX, env_CXX_COMPILER, preferred_toolchain,
              install_clang, pathFiles, cc, kind>>
depVars  == <<dependencies, depIdx, depCur, probe, pkg_config_tool,
              resolved_deps, dep_include_dirs, dep_lib_dirs, dep_libraries>>
discVars == <<bridgeTree, libDirFiles, srcs, include_dirs, generated_cc,
              filtered>>
cfgVars  == <<config_present, build_timeout, cxxflags, ldflags,
              suppress_warnings, verbose_deps, cfg_include_dirs, cfg_lib_dirs,
              cfg_libraries, sources, exclude_sources, document, nodeFiles>>
cmdVars  == <<arrow_include_dirs, arrow_lib_dirs, arrow_libraries, cmd>>
pathVars == <<cache_fn, cache_url, cache_rev, cache_path, safe_name, remote,
              remote_changed, repeated>>
reuseVars == <<reusePc, invocation, reuse_decl, path_hash, repo_dirs,
               install_dirs,
               did_clone, did_build, install_dir, prev_install, build_step,
               build_proc>>
arrowVars == <<arrowPc, arrowLibFiles, arrow_has_include, arrow_built,
               arrow_kinds>>
doraVars == <<doraPc, dora_rev, explicit_target, no_auto_prepare,
              dora_target, dora_disk, resolved_paths, prepared, scanned_dir,
              vendor_dir>>
raceVars == <<racePc, raceEntry, raceSaw, raceInstall, raceBuilt>>
fwVars == <<arrowVars, doraVars, raceVars>>
cacheVars == <<pathVars, reuseVars, fwVars>>
vars == <<sessVars, runVars, tcVars, depVars, discVars, cfgVars, cmdVars,
          cacheVars>>

\* a directory of the tree: does it exist, and its listing
Absent == [exists |-> FALSE, crates |-> <<>>]
Dir(listing) == [exists |-> TRUE, crates |-> listing]

DiscIdle ==
    /\ bridgeTree = [root1 |-> Absent, root2 |-> Absent, out |-> Absent,
                     profile |-> <<"p">>]
    /\ libDirFiles = {} /\ srcs = <<>> /\ include_dirs = <<>>
    /\ generated_cc = <<>> /\ filtered = <<>>

\* compile_node lines 938 and 1059: the timeout of a build without a config
DefaultTimeout == 300

\* no doracxx.toml: the settings are those of a default BuildConfig
NoDocument ==
    [present |-> FALSE, toolchain |-> "auto", install_clang |-> FALSE,
     cxxflags |-> <<>>, build_timeout |-> DefaultTimeout, sources |-> <<>>,
     exclude_sources |-> <<>>, suppress_warnings |-> FALSE,
     dependencies |-> <<>>]

\* a directory of the dependency cache: cache_dir / area / name_hash / leaf
CacheDir(area, name, hash, leaf) ==
    [area |-> area, name |-> name, hash |-> hash, leaf |-> leaf]

NoDir == CacheDir("none", <<>>, 0, "none")

\* no invocation resolved a dependency; the cache is empty
ReuseIdle ==
    /\ reusePc = "idle" /\ invocation = 0
    /\ reuse_decl = [kind |-> "none", url |-> <<>>, ref |-> <<>>,
                     path |-> <<>>, build_system |-> "none"]
    /\ path_hash = 0 /\ repo_dirs = {} /\ install_dirs = {}
    /\ did_clone = FALSE /\ did_build = FALSE
    /\ install_dir = NoDir /\ prev_install = NoDir
    /\ build_step = 0 /\ build_proc = "none"

\* Arrow is not asked for
ArrowIdle ==
    /\ arrowPc = "idle" /\ arrowLibFiles = {} /\ arrow_has_include = FALSE
    /\ arrow_built = FALSE /\ arrow_kinds = {}

\* no Dora target directory is looked for
DoraIdle ==
    /\ doraPc = "idle" /\ dora_rev = <<>> /\ explicit_target = FALSE
    /\ no_auto_prepare = FALSE /\ dora_target = <<>> /\ dora_disk = <<>>
    /\ resolved_paths = {} /\ prepared = {} /\ scanned_dir = <<>>
    /\ vendor_dir = <<>>

\* no concurrent sessions
RaceIdle ==
    /\ racePc = <<>> /\ raceEntry = "absent" /\ raceSaw = <<>>
    /\ raceInstall = "absent" /\ raceBuilt = {}

\* nothing of the framework caches is used
FwIdle == ArrowIdle /\ DoraIdle /\ RaceIdle

\* no cache path was asked for; the remote is unreachable
CacheIdle ==
    /\ cache_fn = "none" /\ cache_url = <<>> /\ cache_rev = <<>>
    /\ cache_path = <<>> /\ safe_name = <<>>
    /\ remote = [ok |-> FALSE, tags |-> <<>>]
    /\ remote_changed = FALSE /\ repeated = FALSE
    /\ ReuseIdle /\ FwIdle

\* no document, no explicit sources, and a node directory that holds m.cc
DocIdle ==
    /\ document = NoDocument /\ sources = <<>> /\ exclude_sources = <<>>
    /\ nodeFiles = << <<"m",".","c","c">> >>

CfgIdle ==
    /\ config_present = FALSE /\ build_timeout = DefaultTimeout
    /\ cxxflags = <<>> /\ ldflags = <<>> /\ suppress_warnings = FALSE
    /\ verbose_deps = FALSE /\ cfg_include_dirs = <<>>
    /\ cfg_lib_dirs = <<>> /\ cfg_libraries = <<>>
    /\ DocIdle

CmdIdle ==
    /\ arrow_include_dirs = <<>> /\ arrow_lib_dirs = <<>>
    /\ arrow_libraries = <<>> /\ cmd = <<>>

\* an order in which the dependencies are resolved before the toolchain is
\* selected
NextStage_DependenciesFirst(stage) ==
    CASE stage = "prepare"      -> "sources"
      [] stage = "sources"      -> "dependencies"
      [] stage = "dependencies" -> "toolchain"
      [] stage = "toolchain"    -> "arrow"
      [] stage = "arrow"        -> "discover"
      [] stage = "discover"     -> "includes"
      [] stage = "includes"     -> "filter"
      [] stage = "filter"       -> "assemble"
      [] stage = "assemble"     -> "run"
      [] stage = "run"          -> "verify"
      [] OTHER                  -> "exit"
\* compile_node, lines 456-1067: the stage that follows a stage that ended
\* normally, in the order of the statements of the function
NextStage(stage) ==
    CASE stage = "prepare"      -> "toolchain"
      [] stage = "toolchain"    -> "sources"
      [] stage = "sources"      -> "dependencies"
      [] stage = "dependencies" -> "arrow"
      [] stage = "arrow"        -> "discover"
      [] stage = "discover"     -> "includes"
      [] stage = "includes"     -> "filter"
      [] stage = "filter"       -> "assemble"
      [] stage = "assemble"     -> "run"
      [] stage = "run"          -> "verify"
      [] OTHER                  -> "exit"

(***************************************************************************)
(* Bounds of the model.                                                    *)
(***************************************************************************)
MaxClock == 4       \* the clock stops at MaxClock
MaxTimeout == 2     \* build timeouts 1..MaxTimeout are explored
MaxPipe == 1        \* lines the process may have in the pipe at once

(***************************************************************************)
(* String helpers (Python str methods on sequences of characters).         *)
(***************************************************************************)
StartsWith(s, pre) ==
    /\ Len(pre) <= Len(s)
    /\ SubSeq(s, 1, Len(pre)) = pre

EndsWith(s, suf) ==
    /\ Len(suf) <= Len(s)
    /\ SubSeq(s, Len(s) - Len(suf) + 1, Len(s)) = suf

\* s[n:]
DropFirst(s, n) == IF n >= Len(s) THEN <<>> ELSE SubSeq(s, n + 1, Len(s))

\* s[:-n]
DropLast(s, n) == IF n >= Len(s) THEN <<>> ELSE SubSeq(s, 1, Len(s) - n)

LowerChar(c) ==
    CASE c = "C" -> "c"
      [] c = "L" -> "l"
      [] c = "E" -> "e"
      [] c = "X" -> "x"
      [] c = "D" -> "d"
      [] c = "O" -> "o"
      [] c = "R" -> "r"
      [] c = "A" -> "a"
      [] c = "I" -> "i"
      [] c = "B" -> "b"
      [] OTHER -> c

\* str.lower()
Lower(s) == [i \in 1..Len(s) |-> LowerChar(s[i])]

\* str.replace(a, b) for single characters a, b
ReplaceChar(s, a, b) == [i \in 1..Len(s) |-> IF s[i] = a THEN b ELSE s[i]]

\* the elements of a sequence
Range(s) == {s[i] : i \in 1..Len(s)}

RECURSIVE AppendMissing(_, _)
\* for x in more: if x not in xs: xs.append(x)
AppendMissing(xs, more) ==
    IF more = <<>> THEN xs
    ELSE AppendMissing(IF Head(more) \in Range(xs) THEN xs
                       ELSE Append(xs, Head(more)), Tail(more))

\* list.insert(i, x)
InsertAt(xs, i, x) ==
    LET k == IF i > Len(xs) THEN Len(xs) ELSE i
    IN SubSeq(xs, 1, k) \o <<x>> \o SubSeq(xs, k + 1, Len(xs))

RECURSIVE Concat(_)
\* "".join / list concatenation of a sequence of sequences
Concat(ss) == IF ss = <<>> THEN <<>> ELSE Head(ss) \o Concat(Tail(ss))

(***************************************************************************)
(* run(cmd, timeout): build_cxx_node.py lines 210-274.                     *)
(***************************************************************************)
RunFinished == {"returned", "CalledProcessError", "TimeoutExpired", "OSError"}

RunIdle ==
    /\ runPc = "idle" /\ capture_output = FALSE /\ timeout = 1 /\ clock = 0
    /\ waitStart = 0 /\ procState = "none" /\ procRc = 0
    /\ stdoutOpen = FALSE /\ pipeLines = 0 /\ procEndClock = -1

\* subprocess.Popen(...): the process is spawned, or the spawn fails.
Popen ==
    /\ pc = "run" /\ runPc = "start" /\ ~capture_output
    /\ \/ /\ runPc' = "reading"
          /\ procState' = "running"
          /\ stdoutOpen' = TRUE
       \/ /\ runPc' = "OSError"
          /\ UNCHANGED <<procState, stdoutOpen>>
    /\ UNCHANGED <<capture_output, timeout, clock, waitStart, procRc,
                   pipeLines, procEndClock>>
    /\ UNCHANGED <<sessVars, tcVars, depVars, discVars, cfgVars, cacheVars, cmdVars>>

\* for line in iter(process.stdout.readline, ''): one line is read.
ReadLine ==
    /\ pc = "run" /\ runPc = "reading"
    /\ pipeLines > 0
    /\ pipeLines' = pipeLines - 1
    /\ UNCHANGED <<runPc, capture_output, timeout, clock, waitStart,
                   procState, procRc, stdoutOpen, procEndClock>>
    /\ UNCHANGED <<sessVars, tcVars, depVars, discVars, cfgVars, cacheVars, cmdVars>>

\* readline returns '' only at end of file: the pipe is empty and its write
\* end is closed.  Until then the loop blocks, whatever the clock says.
ReadEOF ==
    /\ pc = "run" /\ runPc = "reading"
    /\ pipeLines = 0 /\ ~stdoutOpen
    /\ runPc' = "waiting"
    /\ waitStart' = clock
    /\ UNCHANGED <<capture_output, timeout, clock, procState, procRc,
                   stdoutOpen, pipeLines, procEndClock>>
    /\ UNCHANGED <<sessVars, tcVars, depVars, discVars, cfgVars, cacheVars, cmdVars>>

\* process.wait(timeout=timeout) returns: the process has ended.
WaitReturns ==
    /\ pc = "run" /\ runPc = "waiting"
    /\ procState = "exited"
    /\ runPc' = IF procRc # 0 THEN "CalledProcessError" ELSE "returned"
    /\ UNCHANGED <<capture_output, timeout, clock, waitStart, procState,
                   procRc, stdoutOpen, pipeLines, procEndClock>>
    /\ UNCHANGED <<sessVars, tcVars, depVars, discVars, cfgVars, cacheVars, cmdVars>>

\* process.wait raises TimeoutExpired, timeout seconds after it was entered;
\* the handler kills the process and raises TimeoutExpired again.
WaitTimesOut ==
    /\ pc = "run" /\ runPc = "waiting"
    /\ procState = "running"
    /\ clock >= waitStart + timeout
    /\ procState' = "killed"
    /\ procEndClock' = clock
    /\ stdoutOpen' = FALSE
    /\ runPc' = "TimeoutExpired"
    /\ UNCHANGED <<capture_output, timeout, clock, waitStart, procRc, pipeLines>>
    /\ UNCHANGED <<sessVars, tcVars, depVars, discVars, cfgVars, cacheVars, cmdVars>>

\* capture_output=True: subprocess.run(..., timeout=timeout), which waits
\* for the process at most timeout seconds, kills it then and raises.
RunCaptured ==
    /\ pc = "run" /\ runPc = "start" /\ capture_output
    /\ \/ \E rc \in {0, 1}, t \in 0..timeout :
            /\ procState' = "exited" /\ procRc' = rc
            /\ clock' = t /\ procEndClock' = t
            /\ runPc' = IF rc # 0 THEN "CalledProcessError" ELSE "returned"
       \/ /\ procState' = "killed" /\ procRc' = procRc
          /\ clock' = timeout /\ procEndClock' = timeout
          /\ runPc' = "TimeoutExpired"
       \/ /\ runPc' = "OSError"
          /\ UNCHANGED <<procState, procRc, clock, procEndClock>>
    /\ UNCHANGED <<capture_output, timeout, waitStart, stdoutOpen, pipeLines>>
    /\ UNCHANGED <<sessVars, tcVars, depVars, discVars, cfgVars, cacheVars, cmdVars>>

(***************************************************************************)
(* The compiler process and the passing of time (the environment).         *)
(***************************************************************************)
ProcWritesLine ==
    /\ procState = "running" /\ stdoutOpen
    /\ pipeLines < MaxPipe
    /\ pipeLines' = pipeLines + 1
    /\ UNCHANGED <<runPc, capture_output, timeout, clock, waitStart,
                   procState, procRc, stdoutOpen, procEndClock>>
    /\ UNCHANGED <<sessVars, tcVars, depVars, discVars, cfgVars, cacheVars, cmdVars>>

\* the process closes its standard output and keeps running
ProcClosesStdout ==
    /\ procState = "running" /\ stdoutOpen
    /\ stdoutOpen' = FALSE
    /\ UNCHANGED <<runPc, capture_output, timeout, clock, waitStart,
                   procState, procRc, pipeLines, procEndClock>>
    /\ UNCHANGED <<sessVars, tcVars, depVars, discVars, cfgVars, cacheVars, cmdVars>>

\* the process writes the output file (the linker produced the executable)
ProcWritesArtifact ==
    /\ procState = "running"
    /\ ~artifact
    /\ artifact' = TRUE
    /\ UNCHANGED <<pc, exc, exitStatus, stageLog>>
    /\ UNCHANGED <<runVars, tcVars, depVars, discVars, cfgVars, cacheVars, cmdVars>>

\* the process ends on its own, with some return code
ProcExits ==
    /\ procState = "running"
    /\ \E rc \in {0, 1} : procRc' = rc
    /\ procState' = "exited"
    /\ stdoutOpen' = FALSE
    /\ procEndClock' = clock
    /\ UNCHANGED <<runPc, capture_output, timeout, clock, waitStart, pipeLines>>
    /\ UNCHANGED <<sessVars, tcVars, depVars, discVars, cfgVars, cacheVars, cmdVars>>

\* time passes: one second during the first MaxClock seconds, or the length
\* of the default timeout at once
Tick ==
    /\ procState = "running"
    /\ \/ clock < MaxClock /\ clock' = clock + 1
       \/ clock < DefaultTimeout /\ clock' = clock + DefaultTimeout
    /\ UNCHANGED <<runPc, capture_output, timeout, waitStart, procState,
                   procRc, stdoutOpen, pipeLines, procEndClock>>
    /\ UNCHANGED <<sessVars, tcVars, depVars, discVars, cfgVars, cacheVars, cmdVars>>

(***************************************************************************)
(* Toolchain selection: compile_node, build_cxx_node.py lines 483-534.     *)
(***************************************************************************)
n_cl       == <<"c","l">>
n_clang_cl == <<"c","l","a","n","g","-","c","l">>
n_clangpp  == <<"c","l","a","n","g","+","+">>
n_gpp      == <<"g","+","+">>
n_clang    == <<"c","l","a","n","g">>
x_exe      == <<".","e","x","e">>
n_CL_EXE   == <<"C","L",".","E","X","E">>
n_icl      == <<"i","c","l">>

OsNames == {"nt", "posix"}
Toolchains == {"none", "auto", "gcc", "clang", "msvc"}

\* the compiler executables a PATH directory may hold on each platform
CompilerFiles(os) ==
    IF os = "nt"
    THEN {n_cl \o x_exe, n_clang_cl \o x_exe, n_clangpp \o x_exe,
          n_gpp \o x_exe, n_clang \o x_exe, n_icl \o x_exe}
    ELSE {n_cl, n_clang_cl, n_clangpp, n_gpp, n_icl}

\* what the bin directory of an installed LLVM may hold
LLVMBin == {n_clang \o x_exe, n_clangpp \o x_exe, n_clang_cl \o x_exe}

\* values of the CXX / CXX_COMPILER environment variables
OverrideNames ==
    {<<>>, n_cl, n_cl \o x_exe, n_CL_EXE, n_clang_cl, n_clang_cl \o x_exe,
     n_clangpp, n_gpp, n_icl}

\* shutil.which(prog): the file of PATH that prog names, <<>> when there is
\* none.  On Windows the lookup ignores case and tries the .exe extension.
WhichMatches(prog, f, os) ==
    IF os = "nt"
    THEN \/ Lower(f) = Lower(prog)
         \/ Lower(f) = Lower(prog) \o x_exe
    ELSE f = prog

Which(prog, files, os) ==
    IF prog # <<>> /\ \E f \in files : WhichMatches(prog, f, os)
    THEN CHOOSE f \in files : WhichMatches(prog, f, os)
    ELSE <<>>

\* lines 499-510: the candidate list for a preference and a platform
Candidates(pref, os) ==
    IF pref = "msvc" \/ (pref = "auto" /\ os = "nt")
    THEN << <<n_cl, "msvc">>, <<n_clang_cl, "msvc">>,
            <<n_clangpp, "gcc">>, <<n_gpp, "gcc">> >>
    ELSE IF pref = "clang"
    THEN << <<n_clangpp, "gcc">>, <<n_clang_cl, "msvc">>,
            <<n_gpp, "gcc">>, <<n_cl, "msvc">> >>
    ELSE IF pref = "gcc"
    THEN << <<n_gpp, "gcc">>, <<n_clangpp, "gcc">>,
            <<n_clang_cl, "msvc">>, <<n_cl, "msvc">> >>
    ELSE IF os = "nt"
    THEN << <<n_cl, "msvc">>, <<n_clang_cl, "msvc">>,
            <<n_clangpp, "gcc">>, <<n_gpp, "gcc">> >>
    ELSE << <<n_clangpp, "gcc">>, <<n_gpp, "gcc">> >>

\* line 526: the list probed again after clang was installed
RetryCandidates ==
    << <<n_clang_cl, "msvc">>, <<n_clangpp, "gcc">>,
       <<n_cl, "msvc">>, <<n_gpp, "gcc">> >>

RECURSIVE FirstFound(_, _, _)
\* lines 512-517: for cand, k in candidates: p = which(cand); if p: break
FirstFound(cands, files, os) ==
    IF cands = <<>> THEN [cc |-> <<>>, kind |-> "none"]
    ELSE LET p == Which(Head(cands)[1], files, os)
         IN IF p # <<>> THEN [cc |-> p, kind |-> Head(cands)[2]]
            ELSE FirstFound(Tail(cands), files, os)

\* the same test on the name as given, without lower()
OverrideKind_CaseSensitive(cc_env) ==
    IF EndsWith(cc_env, n_cl \o x_exe) \/ EndsWith(cc_env, n_cl)
    THEN "msvc" ELSE "none"
\* lines 495-496: the kind of a compiler given by the environment
OverrideKind(cc_env) ==
    IF \/ EndsWith(Lower(cc_env), n_cl \o x_exe)
       \/ EndsWith(Lower(cc_env), n_cl)
    THEN "msvc" ELSE "none"

\* line 489: os.environ.get("CXX") or os.environ.get("CXX_COMPILER")
CcEnv(cxx, cxx_compiler) == IF cxx # <<>> THEN cxx ELSE cxx_compiler

\* lines 492-517: the override if it is on PATH, else the first candidate
FirstSelection(cc_env, pref, files, os) ==
    IF cc_env # <<>> /\ Which(cc_env, files, os) # <<>>
    THEN [cc |-> cc_env, kind |-> OverrideKind(cc_env)]
    ELSE FirstFound(Candidates(pref, os), files, os)

\* ensure_clang_installed(install=True), lines 1070-1200: TRUE at once when
\* clang or clang++ is on PATH; else the installation may prepend to PATH a
\* directory that holds clang.exe or clang++.exe (added), or fail.
ClangOnPath(files, os) ==
    Which(n_clang, files, os) # <<>> \/ Which(n_clangpp, files, os) # <<>>

InstallOutcomes(files, os) ==
    IF ClangOnPath(files, os) THEN {[ok |-> TRUE, files |-> files]}
    ELSE {[ok |-> FALSE, files |-> files]} \cup
         {[ok |-> TRUE, files |-> files \cup added] :
             added \in {a \in SUBSET LLVMBin :
                           n_clang \o x_exe \in a \/ n_clangpp \o x_exe \in a}}

\* The whole selection: lines 483-534.
SelectCompiler ==
    /\ pc = "toolchain"
    /\ LET first == FirstSelection(CcEnv(env_CXX, env_CXX_COMPILER),
                                   preferred_toolchain, pathFiles, os_name)
       IN IF first.cc # <<>>
          THEN /\ cc' = first.cc /\ kind' = first.kind
               /\ pathFiles' = pathFiles
          ELSE IF os_name = "nt" /\ install_clang
          THEN \E o \in InstallOutcomes(pathFiles, os_name) :
                  /\ pathFiles' = o.files
                  /\ IF o.ok
                     THEN LET r == FirstFound(RetryCandidates, o.files, os_name)
                          IN cc' = r.cc /\ kind' = r.kind
                     ELSE cc' = <<>> /\ kind' = "none"
          ELSE /\ cc' = <<>> /\ kind' = "none"
               /\ pathFiles' = pathFiles
    /\ IF cc' # <<>>
       THEN /\ pc' = NextStage("toolchain") /\ exc' = exc
            /\ stageLog' = stageLog \o << <<"toolchain", "begin">>,
                                          <<"toolchain", "end">> >>
       ELSE /\ pc' = "handler" /\ exc' = "RuntimeError"
            /\ stageLog' = Append(stageLog, <<"toolchain", "begin">>)
    /\ UNCHANGED <<exitStatus, artifact>>
    /\ UNCHANGED <<os_name, env_CXX, env_CXX_COMPILER, preferred_toolchain,
                   install_clang>>
    /\ UNCHANGED <<runVars, depVars, discVars, cfgVars, cacheVars, cmdVars>>

(***************************************************************************)
(* Dependency resolution: dependencies.py, class DependencyManager.        *)
(*                                                                         *)
(* A declaration is a record [type, build_system, pkg_config, libraries,   *)
(* include_dirs, lib_dirs]; the fields a type does not have are empty.     *)
(***************************************************************************)
MaxDeps == 2        \* longest config.dependencies explored
MaxLibs == 2        \* longest libraries list of a declaration

l_z   == <<"z">>
l_m   == <<"m">>
d_inc == <<"i","n","c">>
d_include == <<"i","n","c","l","u","d","e">>
d_lib == <<"l","i","b">>
d_Eigen == <<"E","i","g","e","n">>
p_usr == <<"/","u","s","r">>
c_slash == <<"/">>

LibNames == {l_z, l_m}
BuildSystems == {"cmake", "make", "ninja"}

\* the lists of at most n libraries
LibLists(n) == UNION {[1..k -> LibNames] : k \in 0..n}

Decl(t, bs, pk, libs, incs) ==
    [type |-> t, build_system |-> bs, pkg_config |-> pk, libraries |-> libs,
     include_dirs |-> incs, lib_dirs |-> <<>>]

SystemDecls ==
    {Decl("system", "none", pk, libs, <<>>) :
        pk \in {<<>>, l_z}, libs \in LibLists(MaxLibs)}
GitDecls ==
    {Decl("git", bs, <<>>, libs, incs) :
        bs \in BuildSystems \cup {"none"}, libs \in {<<>>, <<l_z>>},
        incs \in {<<>>, <<d_inc>>}}
LocalDecls ==
    {Decl("local", bs, <<>>, libs, incs) :
        bs \in BuildSystems \cup {"none"}, libs \in {<<>>, <<l_z>>},
        incs \in {<<>>, <<d_inc>>}}
VcpkgDecls == {Decl("vcpkg", "none", <<>>, <<>>, <<>>)}

Decls == SystemDecls \cup GitDecls \cup LocalDecls \cup VcpkgDecls

\* the declarations that follow the first one in the longer lists
FollowDecls ==
    {Decl("system", "none", l_z, <<l_z>>, <<>>),
     Decl("git", "cmake", <<>>, <<l_m>>, <<d_inc>>),
     Decl("local", "make", <<>>, <<>>, <<>>),
     Decl("vcpkg", "none", <<>>, <<>>, <<>>)}

DependencyLists ==
    {<<>>} \cup {<<d>> : d \in Decls} \cup
    UNION {{<<d>> \o t : d \in Decls, t \in [1..k -> FollowDecls]} :
             k \in 1..(MaxDeps - 1)}

\* what the host can answer while one dependency is resolved
PkgConfigAnswers == {"found", "absent", "notool"}
BuildAnswers == {"ok", "configure_failed", "build_failed", "install_failed"}

NoProbe == [pkgcfg |-> "unused", sysLibs |-> {}, cached |-> "unused",
            clone |-> "unused", build |-> "unused", path |-> "unused",
            vcpkg |-> "unused"]

Digit(i) == CASE i = 1 -> "1" [] i = 2 -> "2" [] i = 3 -> "3" [] OTHER -> "9"
SourceDir(i) == <<"s", Digit(i)>>
InstallDir(i) == <<"i", Digit(i)>>
Join(a, b) == a \o c_slash \o b

\* some declared library was found, or none is declared
AllLibrariesFound_AnyFound(libs, present) ==
    libs = <<>> \/ \E i \in 1..Len(libs) : libs[i] \in present
\* line 180: every declared library was found by _find_system_library
AllLibrariesFound(libs, present) ==
    Len(SelectSeq(libs, LAMBDA l : l \in present)) = Len(libs)

\* _resolve_system_dependency, lines 158-186: "ok" or the exception raised
ResolveSystemResult(dep, pkgcfg, present) ==
    IF dep.pkg_config # <<>> /\ pkgcfg = "found" THEN "ok"
    ELSE IF AllLibrariesFound(dep.libraries, present) THEN "ok"
    ELSE "RuntimeError"

\* lines 110-120: what an empty install directory of a git dependency ends
\* up as; a failed build is caught and the header-only setup runs instead.
GitInstallResult(dep, build) ==
    IF dep.build_system # "none"
    THEN IF build = "ok"
         THEN [result |-> "ok", install |-> "built", headers |-> <<>>]
         ELSE [result |-> "ok", install |-> "headers",
               headers |-> IF dep.include_dirs # <<>> THEN dep.include_dirs
                           ELSE <<d_Eigen>>]
    ELSE [result |-> "ok", install |-> "headers", headers |-> dep.include_dirs]

\* lines 199-205: the same for a local dependency; _build_dependency is
\* called outside any try, so a failed step raises CalledProcessError.
LocalInstallResult(dep, build) ==
    IF dep.build_system # "none"
    THEN IF build = "ok"
         THEN [result |-> "ok", install |-> "built", headers |-> <<>>]
         ELSE [result |-> "CalledProcessError", install |-> "absent",
               headers |-> <<>>]
    ELSE [result |-> "ok", install |-> "headers", headers |-> dep.include_dirs]

\* one iteration of the loop of resolve_all_dependencies (lines 52-75) ends:
\* the entry is stored, or the exception is raised again and leaves
\* setup_dependencies and compile_node.
DepStepEnds(i, result, entry, pr) ==
    /\ depCur' = i
    /\ probe' = pr
    /\ IF result = "ok"
       THEN /\ depIdx' = i
            /\ resolved_deps' = Append(resolved_deps, entry)
            /\ pc' = pc /\ exc' = exc
       ELSE /\ depIdx' = depIdx
            /\ resolved_deps' = resolved_deps
            /\ pc' = "handler" /\ exc' = result
    /\ stageLog' = IF depIdx = 0
                   THEN Append(stageLog, <<"dependencies", "begin">>)
                   ELSE stageLog
    /\ UNCHANGED <<exitStatus, artifact, pkg_config_tool>>
    /\ UNCHANGED <<dependencies, dep_include_dirs, dep_lib_dirs, dep_libraries>>
    /\ UNCHANGED <<runVars, tcVars, discVars, cfgVars, cacheVars, cmdVars>>

NextDep == dependencies[depIdx + 1]
Resolving(t) ==
    /\ pc = "dependencies"
    /\ depIdx < Len(dependencies)
    /\ NextDep.type = t

\* _resolve_git_dependency, lines 82-122
ResolveGit ==
    /\ Resolving("git")
    /\ \E cached \in {"absent", "empty", "installed"},
          clone \in {"ok", "failed"}, build \in BuildAnswers :
        LET i == depIdx + 1
            dep == NextDep
            cloned == cached = "absent"
            builds == cached # "installed" /\ dep.build_system # "none"
            pr == [NoProbe EXCEPT !.cached = cached,
                      !.clone = IF cloned THEN clone ELSE "unused",
                      !.build = IF builds /\ ~(cloned /\ clone = "failed")
                                THEN build ELSE "unused"]
            inst == IF cached = "installed"
                    THEN [result |-> "ok", install |-> "cached", headers |-> <<>>]
                    ELSE GitInstallResult(dep, build)
        IN /\ (~cloned => clone = "ok")
           /\ (~builds => build = "ok")
           /\ ((cloned /\ clone = "failed") => build = "ok")
           /\ IF cloned /\ clone = "failed"
              THEN DepStepEnds(i, "CalledProcessError", <<>>, pr)
              ELSE DepStepEnds(i, inst.result,
                       [source |-> SourceDir(i), install |-> InstallDir(i),
                        state |-> inst.install, headers |-> inst.headers], pr)

\* _resolve_local_dependency, lines 188-207
ResolveLocal ==
    /\ Resolving("local")
    /\ \E path \in {"exists", "missing"},
          cached \in {"absent", "empty", "installed"}, build \in BuildAnswers :
        LET i == depIdx + 1
            dep == NextDep
            builds == path = "exists" /\ cached # "installed"
                      /\ dep.build_system # "none"
            pr == [NoProbe EXCEPT !.path = path,
                      !.cached = IF path = "exists" THEN cached ELSE "unused",
                      !.build = IF builds THEN build ELSE "unused"]
            inst == IF cached = "installed"
                    THEN [result |-> "ok", install |-> "cached", headers |-> <<>>]
                    ELSE LocalInstallResult(dep, build)
        IN /\ (path = "missing" => cached = "absent")
           /\ (~builds => build = "ok")
           /\ IF path = "missing"
              THEN DepStepEnds(i, "FileNotFoundError", <<>>, pr)
              ELSE DepStepEnds(i, inst.result,
                       [source |-> SourceDir(i), install |-> InstallDir(i),
                        state |-> inst.install, headers |-> inst.headers], pr)

\* _resolve_system_dependency, lines 158-186
ResolveSystem ==
    /\ Resolving("system")
    /\ \E pkgcfg \in PkgConfigAnswers, present \in SUBSET LibNames :
        LET i == depIdx + 1
            dep == NextDep
            scanned == ~(dep.pkg_config # <<>> /\ pkgcfg = "found")
            pr == [NoProbe EXCEPT
                      !.pkgcfg = IF dep.pkg_config # <<>> THEN pkgcfg ELSE "unused",
                      !.sysLibs = present]
        IN /\ (dep.pkg_config = <<>> => pkgcfg = "absent")
           /\ (dep.pkg_config # <<>> =>
                  (pkgcfg = "notool" <=> ~pkg_config_tool))
           /\ (~scanned => present = {})
           /\ DepStepEnds(i, ResolveSystemResult(dep, pkgcfg, present),
                  [source |-> p_usr, install |-> p_usr, state |-> "system",
                   headers |-> <<>>], pr)

\* _resolve_vcpkg_dependency, lines 124-156
ResolveVcpkg ==
    /\ Resolving("vcpkg")
    /\ \E vcpkg \in {"missing", "install_failed", "ok"} :
        LET i == depIdx + 1
            pr == [NoProbe EXCEPT !.vcpkg = vcpkg]
        IN DepStepEnds(i, IF vcpkg = "ok" THEN "ok" ELSE "RuntimeError",
               [source |-> InstallDir(i), install |-> InstallDir(i),
                state |-> "vcpkg", headers |-> <<>>], pr)

p_pkg_inc == <<"/","p","i">>
p_pkg_lib == <<"/","p","l">>

\* what pkg-config can answer at lines 354-370 for each dependency: its
\* flags, no flags, a failure (CalledProcessError), or "unused" for a
\* dependency that is not asked about
CollectAnswers(deps, tool) ==
    {a \in [1..Len(deps) -> {"flags", "noflags", "failed", "notool", "unused"}] :
        \A i \in 1..Len(deps) :
            IF deps[i].type = "system" /\ deps[i].pkg_config # <<>>
            THEN IF tool THEN a[i] \in {"flags", "noflags", "failed"}
                 ELSE a[i] = "notool"
            ELSE a[i] = "unused"}

\* the first dependency whose pkg-config call finds no executable: the
\* FileNotFoundError is not caught at line 371; 0 when there is none
FirstNoTool(ans) ==
    IF \E i \in DOMAIN ans : ans[i] = "notool"
    THEN CHOOSE i \in DOMAIN ans :
            ans[i] = "notool" /\ \A j \in 1..(i - 1) : ans[j] # "notool"
    ELSE 0

RECURSIVE CollectFrom(_, _, _, _)
\* _collect_dependency_info, lines 301-380, from dependency i on: the three
\* lists [inc, libdir, lib] that the dependencies contribute
CollectFrom(i, deps, res, ans) ==
    IF i > Len(deps) THEN [inc |-> <<>>, libdir |-> <<>>, lib |-> <<>>]
    ELSE
      LET d == deps[i]
          r == res[i]
          rest == CollectFrom(i + 1, deps, res, ans)
          flags == ans[i] = "flags"
          own ==
            IF d.type \in {"git", "local"}
            THEN [inc |-> (IF r.state \in {"headers", "built", "cached"}
                           THEN <<Join(r.install, d_include)>> ELSE <<>>)
                          \o [k \in 1..Len(d.include_dirs) |->
                                 Join(r.source, d.include_dirs[k])],
                  libdir |-> (IF r.state \in {"built", "cached"}
                              THEN <<Join(r.install, d_lib)>> ELSE <<>>)
                          \o [k \in 1..Len(d.lib_dirs) |->
                                 Join(r.install, d.lib_dirs[k])],
                  lib |-> d.libraries]
            ELSE IF d.type = "vcpkg"
            THEN [inc |-> <<Join(r.install, d_include)>>,
                  libdir |-> <<Join(r.install, d_lib)>>,
                  lib |-> <<>>]
            ELSE [inc |-> (IF flags THEN <<p_pkg_inc>> ELSE <<>>)
                          \o d.include_dirs,
                  libdir |-> (IF flags THEN <<p_pkg_lib>> ELSE <<>>)
                          \o d.lib_dirs,
                  lib |-> (IF flags THEN <<d.pkg_config>> ELSE <<>>)
                          \o d.libraries]
      IN [inc |-> own.inc \o rest.inc, libdir |-> own.libdir \o rest.libdir,
          lib |-> own.lib \o rest.lib]

\* lines 77-80 and compile_node line 597: every dependency is resolved, the
\* aggregate lists are collected and setup_dependencies returns.
CollectDependencyInfo ==
    /\ pc = "dependencies"
    /\ dependencies # <<>>
    /\ depIdx = Len(dependencies)
    /\ \E ans \in CollectAnswers(dependencies, pkg_config_tool) :
        LET k == FirstNoTool(ans)
            upto == IF k = 0 THEN Len(dependencies) ELSE k - 1
            c == CollectFrom(1, SubSeq(dependencies, 1, upto),
                             resolved_deps, ans)
        IN /\ dep_include_dirs' = c.inc
           /\ dep_lib_dirs' = c.libdir
           /\ dep_libraries' = c.lib
           /\ IF k = 0
              THEN /\ pc' = NextStage("dependencies")
                   /\ exc' = exc
                   /\ stageLog' = Append(stageLog, <<"dependencies", "end">>)
              ELSE /\ pc' = "handler"
                   /\ exc' = "FileNotFoundError"
                   /\ stageLog' = stageLog
    /\ UNCHANGED <<exitStatus, artifact, pkg_config_tool>>
    /\ UNCHANGED <<dependencies, depIdx, depCur, probe, resolved_deps>>
    /\ UNCHANGED <<runVars, tcVars, discVars, cfgVars, cacheVars, cmdVars>>

\* compile_node lines 594-597: nothing to resolve without dependencies
NoDependencies ==
    /\ pc = "dependencies"
    /\ dependencies = <<>>
    /\ pc' = NextStage("dependencies")
    /\ UNCHANGED <<exc, exitStatus, artifact, stageLog>>
    /\ UNCHANGED <<runVars, tcVars, depVars, discVars, cfgVars, cacheVars, cmdVars>>

DepsIdle ==
    /\ depIdx = 0 /\ depCur = 0 /\ probe = NoProbe /\ resolved_deps = <<>>
    /\ dep_include_dirs = <<>> /\ dep_lib_dirs = <<>> /\ dep_libraries = <<>>

TcIdle ==
    /\ os_name = "posix" /\ env_CXX = <<>> /\ env_CXX_COMPILER = <<>>
    /\ preferred_toolchain = (IF config_present THEN "auto" ELSE "none")
    /\ install_clang = FALSE
    /\ pathFiles = {n_gpp} /\ cc = n_gpp /\ kind = "gcc"

(***************************************************************************)
(* The dependency resolution alone, for every list of declarations.        *)
(***************************************************************************)
InitDeps ==
    /\ pc = "dependencies" /\ exc = "none" /\ exitStatus = -1
    /\ artifact = FALSE /\ stageLog = <<>>
    /\ config_present = TRUE /\ build_timeout = 1
    /\ cxxflags = <<>> /\ ldflags = <<>> /\ suppress_warnings = FALSE
    /\ verbose_deps = FALSE /\ cfg_include_dirs = <<>>
    /\ cfg_lib_dirs = <<>> /\ cfg_libraries = <<>>
    /\ DocIdle /\ CacheIdle
    /\ RunIdle /\ TcIdle /\ DepsIdle /\ pkg_config_tool \in BOOLEAN /\ DiscIdle /\ CmdIdle
    /\ dependencies \in DependencyLists

NextDeps ==
    \/ ResolveGit \/ ResolveLocal \/ ResolveSystem \/ ResolveVcpkg
    \/ CollectDependencyInfo \/ NoDependencies

SpecDeps == InitDeps /\ [][NextDeps]_vars

\* the dependency processed last, and how its resolution ended
CurDep == dependencies[depCur]
CurRaised == depCur > 0 /\ depIdx < depCur
CurResolved == depCur > 0 /\ depIdx >= depCur

\* a system dependency whose pkg-config check was made and did not succeed
PkgConfigFailed ==
    /\ depCur > 0
    /\ CurDep.type = "system"
    /\ CurDep.pkg_config # <<>>
    /\ probe.pkgcfg \in {"absent", "notool"}

FoundLibs == {l \in Range(CurDep.libraries) : l \in probe.sysLibs}

BuildFailed ==
    /\ depCur > 0
    /\ probe.build \in {"configure_failed", "build_failed", "install_failed"}

\* C4: a failed build of a git or local dependency never aborts the
\* resolution: the dependency is resolved as header-only.
C4_BuildFailureFallsBack ==
    BuildFailed =>
        /\ CurResolved
        /\ resolved_deps[depCur].state = "headers"

\* the system dependencies that declare a pkg-config id
PkgConfigDeps ==
    {i \in 1..Len(dependencies) :
        dependencies[i].type = "system" /\ dependencies[i].pkg_config # <<>>}

\* C24: with a pkg-config id declared, no pkg-config tool on the host and
\* every declared library found by the scan, the resolution completes
\* without error and the aggregate lists hold what the dependency declares.
C24_ScanFallbackCompletes ==
    (/\ PkgConfigDeps # {} /\ ~pkg_config_tool
     /\ depIdx = Len(dependencies) /\ pc # "dependencies")
    => /\ exc = "none"
       /\ \A i \in PkgConfigDeps :
            /\ Range(dependencies[i].include_dirs) \subseteq Range(dep_include_dirs)
            /\ Range(dependencies[i].lib_dirs) \subseteq Range(dep_lib_dirs)
            /\ Range(dependencies[i].libraries) \subseteq Range(dep_libraries)

(***************************************************************************)
(* Artifact discovery: find_cxxbridge_artifacts, lines 344-393, and the    *)
(* choice of the glue sources to compile, compile_node lines 743-782.      *)
(*                                                                         *)
(* A path is a sequence of components; PathStr is str(path).  A crate      *)
(* directory is [name, src, rootcc]: src tells whether <crate>/src exists  *)
(* and holds lib.rs.cc, rootcc whether <crate>/<name>.cc exists.           *)
(***************************************************************************)
MaxCrates == 2      \* most crate directories under the first bridge root

n_cxxbridge == <<"c","x","x","b","r","i","d","g","e">>
n_src    == <<"s","r","c">>
n_lib_rs_cc == <<"l","i","b",".","r","s",".","c","c">>
n_build  == <<"b","u","i","l","d">>
n_out    == <<"o","u","t">>
n_crate  == <<"c","r","a","t","e">>
n_hash   == <<"h","1">>
n_lib    == <<"l","i","b">>
x_cc     == <<".","c","c">>
x_a      == <<".","a">>
x_lib    == <<".","l","i","b">>
x_rlib   == <<".","r","l","i","b">>
cr_a_dash_b  == <<"a","-","b">>
cr_a_under_b == <<"a","_","b">>
cr_c     == <<"c">>
p_target == <<"t">>          \* dora_target
p_profile == <<"p">>         \* profile

CrateNames == {cr_a_dash_b, cr_a_under_b, cr_c}
CrateDirs ==
    [name : CrateNames, src : {"none", "empty", "cc"}, rootcc : BOOLEAN]

RECURSIVE PathStr(_)
PathStr(path) ==
    IF path = <<>> THEN <<>>
    ELSE IF Len(path) = 1 THEN path[1]
    ELSE path[1] \o c_slash \o PathStr(Tail(path))

\* the listings of a directory of at most n crates (names are unique)
Listings(n) ==
    {l \in UNION {[1..k -> CrateDirs] : k \in 0..n} :
        \A i, j \in 1..Len(l) : i # j => l[i].name # l[j].name}

\* a path seen before is kept a second time when it comes right after a
\* different one
Dedup_AdjacentOnly(xs, seen) ==
    LET kept == SelectSeq([i \in 1..Len(xs) |-> [at |-> i, p |-> xs[i]]],
                          LAMBDA e : e.at = 1 \/ xs[e.at - 1] # e.p)
    IN [i \in 1..Len(kept) |-> kept[i].p]
\* lines 388-391: [p for p in xs if not (p in seen or seen.add(p))]
Dedup(xs, seen) ==
    LET RECURSIVE Keep(_, _)
        Keep(rest, s) ==
            IF rest = <<>> THEN <<>>
            ELSE IF Head(rest) \in s THEN Keep(Tail(rest), s)
            ELSE <<Head(rest)>> \o Keep(Tail(rest), s \cup {Head(rest)})
    IN Keep(xs, seen)

RECURSIVE ScanRoot(_, _)
\* lines 359-371: the crate directories of one bridge root, in listing order
ScanRoot(root, crates) ==
    IF crates = <<>> THEN [inc |-> <<>>, cc |-> <<>>]
    ELSE
      LET c == Head(crates)
          dir == Append(root, c.name)
          src == Append(dir, n_src)
          rest == ScanRoot(root, Tail(crates))
          inc == <<dir>> \o (IF c.src # "none" THEN <<src>> ELSE <<>>)
          gen == (IF c.src = "cc" THEN <<Append(src, n_lib_rs_cc)>> ELSE <<>>)
                 \o (IF c.rootcc THEN <<Append(dir, c.name \o x_cc)>> ELSE <<>>)
      IN [inc |-> inc \o rest.inc, cc |-> gen \o rest.cc]

RECURSIVE ScanOut(_, _)
\* lines 379-385: the crates of build/<entry>/out/cxxbridge/crate
ScanOut(root, crates) ==
    IF crates = <<>> THEN [inc |-> <<>>, cc |-> <<>>]
    ELSE
      LET c == Head(crates)
          src == root \o <<c.name, n_src>>
          rest == ScanOut(root, Tail(crates))
      IN [inc |-> (IF c.src # "none" THEN <<src>> ELSE <<>>) \o rest.inc,
          cc |-> (IF c.src = "cc" THEN <<Append(src, n_lib_rs_cc)>> ELSE <<>>)
                 \o rest.cc]

\* dora_target / profile: pathlib drops a "." component
ProfileDir(profile) ==
    IF profile = <<".">> THEN <<p_target>> ELSE <<p_target, profile>>
Root1(profile) == Append(ProfileDir(profile), n_cxxbridge)
Root2 == <<p_target, n_cxxbridge>>
OutRoot(profile) ==
    ProfileDir(profile) \o <<n_build, n_hash, n_out, n_cxxbridge, n_crate>>

\* lines 350-385 of find_cxxbridge_artifacts(dora_target, profile): the two
\* lists before the deduplication, for a tree [root1, root2, out, profile]
\* whose directories exist or not
RawArtifacts(tree) ==
    LET one(root, l) ==
            IF ~l.exists THEN [inc |-> <<>>, cc |-> <<>>]
            ELSE LET r == ScanRoot(root, l.crates)
                 IN [inc |-> <<root>> \o r.inc, cc |-> r.cc]
        r1 == one(Root1(tree.profile), tree.root1)
        r2 == one(Root2, tree.root2)
        ro == IF ~tree.out.exists THEN [inc |-> <<>>, cc |-> <<>>]
              ELSE ScanOut(OutRoot(tree.profile), tree.out.crates)
    IN [include_dirs |-> r1.inc \o r2.inc \o ro.inc,
        generated_cc |-> r1.cc \o r2.cc \o ro.cc]

\* find_cxxbridge_artifacts(dora_target, profile), lines 344-393
FindCxxbridgeArtifacts(tree) ==
    [include_dirs |-> Dedup(RawArtifacts(tree).include_dirs, {}),
     generated_cc |-> Dedup(RawArtifacts(tree).generated_cc, {})]

\* pathlib: the index of the dot that starts the suffix of a name, 0 if none
RECURSIVE LastDot(_, _)
LastDot(name, i) ==
    IF i <= 1 THEN 0
    ELSE IF name[i] = "." THEN i
    ELSE LastDot(name, i - 1)

Suffix(name) ==
    LET d == LastDot(name, Len(name))
    IN IF d = 0 \/ d = Len(name) THEN <<>> ELSE SubSeq(name, d, Len(name))
Stem(name) == DropLast(name, Len(Suffix(name)))

\* lines 756-763: the libraries that exist in lib_dir, by toolchain kind
AvailableLibs(files, k) ==
    IF k = "msvc"
    THEN {Stem(f) : f \in {g \in files : Lower(Suffix(g)) = x_lib}}
    ELSE {DropFirst(Stem(f), 3) :
             f \in {g \in files : Lower(Suffix(g)) = x_a /\ StartsWith(g, n_lib)}}

\* line 769: ppath.parent.parent.name
CrateOf(path) == IF Len(path) >= 3 THEN path[Len(path) - 2] ELSE <<>>

\* lines 772-777: is a library of the crate among the available ones
LibraryExistsFor(crate, available) ==
    /\ crate # <<>>
    /\ \/ crate \in available
       \/ ReplaceChar(crate, "-", "_") \in available

\* lines 766-780
FilterGenerated(gen, available) ==
    SelectSeq(gen, LAMBDA p : ~LibraryExistsFor(CrateOf(p), available))

\* compile_node lines 650-653: the discovery stage
DiscoverArtifacts ==
    /\ pc = "discover"
    /\ LET r == FindCxxbridgeArtifacts(bridgeTree)
       IN /\ include_dirs' = [i \in 1..Len(r.include_dirs) |->
                                 PathStr(r.include_dirs[i])]
          /\ generated_cc' = r.generated_cc
          /\ IF r.include_dirs = <<>> /\ r.generated_cc = <<>>
             THEN /\ pc' = "handler" /\ exc' = "RuntimeError"
                  /\ stageLog' = Append(stageLog, <<"discovery", "begin">>)
             ELSE /\ pc' = NextStage("discover") /\ exc' = exc
                  /\ stageLog' = stageLog \o << <<"discovery", "begin">>,
                                                <<"discovery", "end">> >>
    /\ UNCHANGED <<exitStatus, artifact>>
    /\ UNCHANGED <<bridgeTree, libDirFiles, srcs, filtered>>
    /\ UNCHANGED <<runVars, tcVars, depVars, cfgVars, cacheVars, cmdVars>>

\* compile_node lines 743-782: srcs += filtered
FilterGlueSources ==
    /\ pc = "filter"
    /\ filtered' = FilterGenerated(generated_cc, AvailableLibs(libDirFiles, kind))
    /\ srcs' = srcs \o [i \in 1..Len(filtered') |-> PathStr(filtered'[i])]
    /\ pc' = NextStage("filter")
    /\ UNCHANGED <<exc, exitStatus, artifact, stageLog>>
    /\ UNCHANGED <<bridgeTree, libDirFiles, include_dirs, generated_cc>>
    /\ UNCHANGED <<runVars, tcVars, depVars, cfgVars, cacheVars, cmdVars>>

(***************************************************************************)
(* The command assembly: compile_node lines 783-1060.                      *)
(***************************************************************************)
MaxFlags == 2       \* longest config.build.cxxflags explored

f_Wall == <<"-","W","a","l","l">>
f_Wextra == <<"-","W","e","x","t","r","a">>
f_w == <<"-","w">>
f_O2 == <<"-","O","2">>
f_O3 == <<"-","O","3">>
f_DX == <<"-","D","X">>
f_fPIC == <<"-","f","P","I","C">>
f_W4 == <<"/","W","4">>
f_plain == <<"@","r","s","p">>
f_Wl == <<"-","W","l",",","-","s">>
f_DEBUG == <<"/","D","E","B","U","G">>
m_W3 == <<"/","W","3">>
m_W4 == <<"/","W","4">>
m_w == <<"/","w">>
m_O2 == <<"/","O","2">>
m_Ox == <<"/","O","x">>
m_D == <<"/","D">>
m_nologo == <<"/","n","o","l","o","g","o">>
m_EHsc == <<"/","E","H","s","c">>
m_MD == <<"/","M","D">>
m_std == <<"/","s","t","d",":">>
g_std == <<"-","s","t","d","=">>
v_cxx17 == <<"c","+","+","1","7">>
m_I == <<"/","I">>
m_Fo == <<"/","F","o">>
m_link == <<"/","l","i","n","k">>
m_LIBPATH == <<"/","L","I","B","P","A","T","H",":">>
m_OUT == <<"/","O","U","T",":">>
g_I == <<"-","I">>
g_L == <<"-","L">>
g_l == <<"-","l">>
g_o == <<"-","o">>
g_pthread == <<"-","p","t","h","r","e","a","d">>
g_lws2_32 == <<"-","l","w","s","2","_","3","2">>
g_rpath == <<"-","W","l",",","-","r","p","a","t","h",",">>
n_dora == <<"d","o","r","a">>
n_libdora == <<"l","i","b","d","o","r","a">>
n_dora_node_api_cxx == <<"d","o","r","a","_","n","o","d","e","_","a","p","i","_","c","x","x">>
n_dora_node_api_c == <<"d","o","r","a","_","n","o","d","e","_","a","p","i","_","c">>
n_ws2_32_lib == <<"w","s","2","_","3","2",".","l","i","b">>
n_arrow == <<"a","r","r","o","w">>
n_dl == <<"d","l">>
n_rt == <<"r","t">>
p_node_dir == <<"n">>
p_build_dir == <<"t","/","p","/","b","u","i","l","d">>
p_out == <<"t","/","p","/","n","o","d","e">>
p_project_include == <<"w","/","i","n","c","l","u","d","e">>
p_deps_include == <<"w","/","d","e","p","s">>
p_vendor == <<"v","/","e","x">>
p_arrow_inc == <<"a","/","i","n","c","l","u","d","e">>
p_arrow_lib == <<"a","/","l","i","b">>
d_cfg_inc == <<"c","i">>
d_cfg_lib == <<"c","l">>
c_backslash == <<"\\">>
\* line 908: the Windows system libraries always linked
WindowsSysLibs ==
    << <<"u","s","e","r","e","n","v",".","l","i","b">>,
       <<"b","c","r","y","p","t",".","l","i","b">>,
       <<"o","l","e","3","2",".","l","i","b">>,
       <<"o","l","e","a","u","t","3","2",".","l","i","b">>,
       <<"a","d","v","a","p","i","3","2",".","l","i","b">>,
       <<"n","t","d","l","l",".","l","i","b">>,
       <<"s","h","e","l","l","3","2",".","l","i","b">> >>
\* lines 835-841: the targeted warning suppressions
TargetedSuppressions ==
    << <<"/","w","d","4","9","9","6">>,
       <<"/","w","d","4","2","4","4">>,
       <<"/","w","d","4","2","6","7">>,
       <<"/","w","d","4","1","0","1">>,
       <<"/","w","d","4","1","8","9">>,
       <<"/","w","d","4","2","5","1">>,
       <<"/","w","d","4","2","7","5">> >>

\* "sub in s"
Contains(s, sub) ==
    \E i \in 0..(Len(s) - Len(sub)) : SubSeq(s, i + 1, i + Len(sub)) = sub

RECURSIVE SetToSeq(_)
\* the elements of a set in the order a directory listing yields them
SetToSeq(S) ==
    IF S = {} THEN <<>>
    ELSE LET x == CHOOSE y \in S : TRUE IN <<x>> \o SetToSeq(S \ {x})

\* lines 806-827: what one declared flag becomes for MSVC
TranslateFlag(flag, suppress) ==
    IF flag = f_Wall THEN (IF suppress THEN <<>> ELSE <<m_W3>>)
    ELSE IF flag = f_Wextra THEN (IF suppress THEN <<>> ELSE <<m_W4>>)
    ELSE IF flag = f_w THEN <<m_w>>
    ELSE IF flag = f_O2 THEN <<m_O2>>
    ELSE IF flag = f_O3 THEN <<m_Ox>>
    ELSE IF StartsWith(flag, <<"-","D">>) THEN <<m_D \o DropFirst(flag, 2)>>
    ELSE IF StartsWith(flag, <<"/">>) THEN <<flag>>
    ELSE IF StartsWith(flag, <<"-">>) THEN <<>>
    ELSE <<flag>>

\* lines 796-842: msvc_flags
MsvcFlags(flags, suppress, verbose, has_dep_manager) ==
    LET translated ==
            Concat([i \in 1..Len(flags) |-> TranslateFlag(flags[i], suppress)])
        has_warning_suppression == suppress \/ f_w \in Range(flags)
    IN (IF suppress THEN <<m_w>> ELSE <<>>)
       \o translated
       \o (IF ~has_warning_suppression /\ verbose /\ has_dep_manager
           THEN TargetedSuppressions ELSE <<>>)

\* get_compiler_flags, dependencies.py lines 481-487
IncludeFlags(paths) == [i \in 1..Len(paths) |-> g_I \o paths[i]]
LibDirFlags(paths)  == [i \in 1..Len(paths) |-> g_L \o paths[i]]
LibFlags(libs)      == [i \in 1..Len(libs) |-> g_l \o libs[i]]

\* node_dir / d (the configured directories explored are relative)
AbsDir(d) == Join(p_node_dir, d)

\* [a, x] for every x of xs, flattened
Paired(a, xs) == Concat([i \in 1..Len(xs) |-> <<a, xs[i]>>])
Prefixed(a, xs) == [i \in 1..Len(xs) |-> a \o xs[i]]

\* lib_dir exists when the profile directory of the Dora target exists
LibDirExists == bridgeTree.root1.exists \/ bridgeTree.out.exists
                \/ libDirFiles # {}
LibDirStr == PathStr(<<p_target, p_profile>>)

\* lines 879-893: the Dora .lib files of lib_dir
DoraLibFiles(files) ==
    LET pick == {f \in files :
                   /\ Lower(Suffix(f)) = x_lib
                   /\ \/ Contains(Lower(f), n_dora_node_api_cxx)
                      \/ StartsWith(Lower(f), n_libdora)
                      \/ StartsWith(Lower(f), n_dora)}
    IN IF pick = {} THEN <<n_dora_node_api_cxx \o x_lib>> ELSE SetToSeq(pick)

HasDepManager == config_present /\ dependencies # <<>>

\* lines 784-935: the MSVC command
MsvcCommand ==
    LET libs == AppendMissing(
                   DoraLibFiles(libDirFiles)
                   \o (IF HasDepManager THEN dep_libraries ELSE <<>>)
                   \o arrow_libraries
                   \o (IF config_present THEN cfg_libraries ELSE <<>>)
                   \o <<n_ws2_32_lib>>,
                   WindowsSysLibs)
    IN <<cc, m_nologo, m_EHsc, m_MD>>
       \o <<m_std \o v_cxx17>>
       \o (IF config_present
           THEN MsvcFlags(cxxflags, suppress_warnings, verbose_deps, HasDepManager)
           ELSE <<>>)
       \o Paired(m_I, include_dirs)
       \o Paired(m_I, arrow_include_dirs)
       \o (IF HasDepManager
           THEN Paired(m_I, [i \in 1..Len(dep_include_dirs) |->
                               DropFirst(IncludeFlags(dep_include_dirs)[i], 2)])
           ELSE <<>>)
       \o (IF config_present
           THEN Paired(m_I, [i \in 1..Len(cfg_include_dirs) |->
                               AbsDir(cfg_include_dirs[i])])
           ELSE <<>>)
       \o <<m_Fo \o p_build_dir \o c_backslash>>
       \o srcs
       \o <<m_link, m_LIBPATH \o LibDirStr>>
       \o Prefixed(m_LIBPATH, arrow_lib_dirs)
       \o (IF HasDepManager THEN Prefixed(m_LIBPATH, dep_lib_dirs) ELSE <<>>)
       \o (IF config_present
           THEN Prefixed(m_LIBPATH, [i \in 1..Len(cfg_lib_dirs) |->
                                        AbsDir(cfg_lib_dirs[i])])
           ELSE <<>>)
       \o (IF config_present THEN ldflags ELSE <<>>)
       \o libs
       \o <<m_OUT \o p_out>>

\* lines 977-998: the Dora libraries linked by name on the GCC path (the
\* deps subdirectory of lib_dir is taken as absent)
Linked(files) ==
    SetToSeq({DropFirst(Stem(f), 3) :
                 f \in {g \in files : g = n_lib \o n_dora_node_api_cxx \o x_a
                                      \/ g = n_lib \o n_dora_node_api_c \o x_a}})

\* lines 940-1056: the GCC / Clang command
GccCommand ==
    <<cc>> \o srcs
    \o <<g_std \o v_cxx17>>
    \o (IF config_present THEN cxxflags ELSE <<>>)
    \o Paired(g_I, include_dirs)
    \o Paired(g_I, arrow_include_dirs)
    \o (IF HasDepManager THEN IncludeFlags(dep_include_dirs) ELSE <<>>)
    \o (IF config_present
        THEN Paired(g_I, [i \in 1..Len(cfg_include_dirs) |->
                            AbsDir(cfg_include_dirs[i])])
        ELSE <<>>)
    \o (IF LibDirExists THEN <<g_L, LibDirStr>> ELSE <<>>)
    \o (IF HasDepManager THEN LibDirFlags(dep_lib_dirs) ELSE <<>>)
    \o Paired(g_L, arrow_lib_dirs)
    \o (IF config_present
        THEN Concat([i \in 1..Len(cfg_lib_dirs) |->
                 <<g_L, AbsDir(cfg_lib_dirs[i])>>
                 \o (IF os_name # "nt"
                     THEN <<g_rpath \o AbsDir(cfg_lib_dirs[i])>> ELSE <<>>)])
        ELSE <<>>)
    \o (IF os_name = "nt" THEN <<g_lws2_32>> ELSE <<g_pthread>>)
    \o Paired(g_l, IF LibDirExists THEN Linked(libDirFiles) ELSE <<>>)
    \o (IF HasDepManager THEN LibFlags(dep_libraries) ELSE <<>>)
    \o Paired(g_l, arrow_libraries)
    \o (IF arrow_libraries # <<>> /\ os_name # "nt"
        THEN Paired(g_l, <<n_dl, n_rt>>) ELSE <<>>)
    \o (IF config_present THEN Paired(g_l, cfg_libraries) ELSE <<>>)
    \o (IF config_present THEN ldflags ELSE <<>>)
    \o <<g_l, n_dora_node_api_cxx>>
    \o <<g_o, p_out>>

\* lines 938-939 and 1059-1060: run(cmd, timeout=...) is entered
EnterRun ==
    /\ runPc' = "start"
    /\ timeout' = IF config_present THEN build_timeout ELSE DefaultTimeout
    /\ UNCHANGED <<capture_output, clock, waitStart, procState, procRc,
                   stdoutOpen, pipeLines, procEndClock>>

AssembleMsvc ==
    /\ pc = "assemble" /\ kind = "msvc"
    /\ cmd' = MsvcCommand
    /\ pc' = NextStage("assemble")
    /\ EnterRun
    /\ stageLog' = Append(stageLog, <<"compile", "begin">>)
    /\ UNCHANGED <<exc, exitStatus, artifact>>
    /\ UNCHANGED <<arrow_include_dirs, arrow_lib_dirs, arrow_libraries>>
    /\ UNCHANGED <<tcVars, depVars, discVars, cfgVars, cacheVars>>

AssembleGcc ==
    /\ pc = "assemble" /\ kind # "msvc"
    /\ cmd' = GccCommand
    /\ pc' = NextStage("assemble")
    /\ EnterRun
    /\ stageLog' = Append(stageLog, <<"compile", "begin">>)
    /\ UNCHANGED <<exc, exitStatus, artifact>>
    /\ UNCHANGED <<arrow_include_dirs, arrow_lib_dirs, arrow_libraries>>
    /\ UNCHANGED <<tcVars, depVars, discVars, cfgVars, cacheVars>>

(***************************************************************************)
(* The build session: main, lines 1402-1423, and the remaining stages of   *)
(* compile_node.                                                           *)
(***************************************************************************)
p_main_cc == <<"n","/","m",".","c","c">>

\* main, lines 1402-1403: if install_clang: ensure_clang_installed(True)
MainEnsureClang ==
    /\ pc = "main"
    /\ IF install_clang
       THEN \E o \in InstallOutcomes(pathFiles, os_name) : pathFiles' = o.files
       ELSE pathFiles' = pathFiles
    /\ pc' = "prepare"
    /\ UNCHANGED <<exc, exitStatus, artifact, stageLog>>
    /\ UNCHANGED <<os_name, env_CXX, env_CXX_COMPILER, preferred_toolchain,
                   install_clang, cc, kind>>
    /\ UNCHANGED <<runVars, depVars, discVars, cfgVars, cacheVars, cmdVars>>

\* compile_node lines 466-481: ensure_dora_prepared and load_msvc_env run
\* inside try blocks whose handlers continue with the build
EnsureDoraPrepared ==
    /\ pc = "prepare"
    /\ pc' = NextStage("prepare")
    /\ UNCHANGED <<exc, exitStatus, artifact, stageLog>>
    /\ UNCHANGED <<runVars, tcVars, depVars, discVars, cfgVars, cacheVars, cmdVars>>

n_t_cc   == <<"t",".","c","c">>
n_h_h    == <<"h",".","h">>
n_t_star == <<"t","*">>
x_cpp    == <<".","c","p","p">>
x_c      == <<".","c">>

\* line 565: fnmatch.fnmatch(str(src.relative_to(node_dir)), pattern), for
\* patterns made of literals, '*' and '?'; both sides go through
\* os.path.normcase, and on nt the relative path is spelled with '\'
FnMatch(rel, pat, os) ==
    LET NormCase(s) ==
            IF os = "nt" THEN Lower(ReplaceChar(s, "/", "\\")) ELSE s
        RECURSIVE Match(_, _)
        Match(q, name) ==
            IF q = <<>> THEN name = <<>>
            ELSE IF Head(q) = "*"
            THEN Match(Tail(q), name)
                 \/ (name # <<>> /\ Match(q, Tail(name)))
            ELSE /\ name # <<>>
                 /\ (Head(q) = "?" \/ Head(q) = Head(name))
                 /\ Match(Tail(q), Tail(name))
    IN Match(NormCase(pat), NormCase(rel))

\* lines 540-555: the sources before the exclusion, in order. An explicit
\* pattern with a wildcard is a glob (a '*' stays inside one path
\* component), one without is a file that has to exist; with no explicit
\* pattern the directory is scanned for .cc, then .cpp, then .c files
DiscoverSources(patterns, files) ==
    LET Depth(rel) == Len(SelectSeq(rel, LAMBDA ch : ch = "/"))
        GlobMatch(rel, pat) ==
            Depth(rel) = Depth(pat) /\ FnMatch(rel, pat, "posix")
    IN IF patterns # <<>>
       THEN Concat([i \in 1..Len(patterns) |->
               IF "*" \in Range(patterns[i]) \/ "?" \in Range(patterns[i])
               THEN SelectSeq(files, LAMBDA f : GlobMatch(f, patterns[i]))
               ELSE IF patterns[i] \in Range(files) THEN <<patterns[i]>>
               ELSE <<>>])
       ELSE SelectSeq(files, LAMBDA f : EndsWith(f, x_cc))
            \o SelectSeq(files, LAMBDA f : EndsWith(f, x_cpp))
            \o SelectSeq(files, LAMBDA f : EndsWith(f, x_c))

\* lines 558-576: every source that matches an exclude pattern is collected,
\* then srcs.remove() takes each of them out
ExcludeSources(found, globs, os) ==
    LET excluded_srcs ==
            SelectSeq(found, LAMBDA f :
                \E i \in 1..Len(globs) : FnMatch(f, globs[i], os))
        RECURSIVE RemoveFirst(_, _)
        RemoveFirst(xs, x) ==
            IF xs = <<>> THEN <<>>
            ELSE IF Head(xs) = x THEN Tail(xs)
            ELSE <<Head(xs)>> \o RemoveFirst(Tail(xs), x)
        RECURSIVE RemoveEach(_, _)
        RemoveEach(xs, gone) ==
            IF gone = <<>> THEN xs
            ELSE RemoveEach(RemoveFirst(xs, Head(gone)), Tail(gone))
    IN RemoveEach(found, excluded_srcs)

\* compile_node lines 536-577: the sources of the node directory
SourceDiscovery ==
    /\ pc = "sources"
    /\ LET found == ExcludeSources(DiscoverSources(sources, nodeFiles),
                                    exclude_sources, os_name)
       IN /\ srcs' = [i \in 1..Len(found) |-> Join(p_node_dir, found[i])]
          /\ IF found = <<>>
             THEN pc' = "handler" /\ exc' = "RuntimeError"
             ELSE pc' = NextStage("sources") /\ exc' = exc
    /\ UNCHANGED <<exitStatus, artifact, stageLog>>
    /\ UNCHANGED <<bridgeTree, libDirFiles, include_dirs, generated_cc, filtered>>
    /\ UNCHANGED <<runVars, tcVars, depVars, cfgVars, cacheVars, cmdVars>>

\* a document that is declared, with the settings it does not mention
Document(deps, install, secs, globs) ==
    [NoDocument EXCEPT !.present = TRUE, !.cxxflags = <<f_Wall>>,
                       !.dependencies = deps, !.install_clang = install,
                       !.build_timeout = secs, !.exclude_sources = globs]

\* main lines 1290-1310 and load_config, config.py lines 226-301: the build
\* section is read into a BuildConfig; a document that cannot be loaded is
\* reported and the build goes on without a config
LoadConfig ==
    /\ pc = "load"
    /\ \E loaded \in BOOLEAN :
          /\ (loaded => document.present)
          /\ config_present' = loaded
          /\ preferred_toolchain' = (IF loaded THEN document.toolchain
                                     ELSE "none")
          /\ install_clang' = (loaded /\ document.install_clang)
          /\ cxxflags' = (IF loaded THEN document.cxxflags ELSE <<>>)
          /\ dependencies' = (IF loaded THEN document.dependencies ELSE <<>>)
    /\ build_timeout' = DefaultTimeout
    /\ sources' = <<>> /\ exclude_sources' = <<>>
    /\ suppress_warnings' = FALSE
    /\ pc' = "main"
    /\ UNCHANGED <<exc, exitStatus, artifact, stageLog>>
    /\ UNCHANGED <<os_name, env_CXX, env_CXX_COMPILER, pathFiles, cc, kind>>
    /\ UNCHANGED <<depIdx, depCur, probe, pkg_config_tool, resolved_deps,
                   dep_include_dirs, dep_lib_dirs, dep_libraries>>
    /\ UNCHANGED <<ldflags, verbose_deps, cfg_include_dirs, cfg_lib_dirs,
                   cfg_libraries, document, nodeFiles>>
    /\ UNCHANGED <<runVars, discVars, cmdVars, cacheVars>>

\* what find_arrow_artifacts (lines 396-453) can return, and the empty
\* lists left when Arrow is not needed or its preparation failed
ArrowArtifacts ==
    {[inc |-> <<>>, libdir |-> <<>>, lib |-> <<>>],
     [inc |-> <<p_arrow_inc>>, libdir |-> <<p_arrow_lib>>, lib |-> <<>>],
     [inc |-> <<p_arrow_inc>>, libdir |-> <<p_arrow_lib>>, lib |-> <<n_arrow>>]}

\* compile_node lines 599-632: a failed preparation is caught
PrepareArrow ==
    /\ pc = "arrow"
    /\ \E a \in ArrowArtifacts :
          /\ (~config_present => a.inc = <<>>)
          /\ arrow_include_dirs' = a.inc
          /\ arrow_lib_dirs' = a.libdir
          /\ arrow_libraries' = a.lib
    /\ pc' = NextStage("arrow")
    /\ UNCHANGED cmd
    /\ UNCHANGED <<exc, exitStatus, artifact, stageLog>>
    /\ UNCHANGED <<runVars, tcVars, depVars, discVars, cfgVars, cacheVars>>

\* the directories that hold operator.h in a vendored Dora checkout
VendorIncludes == {<<>>, <<p_vendor>>}

\* compile_node lines 659-700: vendor includes are appended, the project
\* include directory is inserted first and the deps directory second
SetupIncludeDirs ==
    /\ pc = "includes"
    /\ \E vendor \in VendorIncludes :
          LET withVendor == AppendMissing(include_dirs, vendor)
              withProject == IF p_project_include \in Range(withVendor)
                             THEN withVendor
                             ELSE InsertAt(withVendor, 0, p_project_include)
          IN include_dirs' = IF p_deps_include \in Range(withProject)
                             THEN withProject
                             ELSE InsertAt(withProject, 1, p_deps_include)
    /\ pc' = NextStage("includes")
    /\ UNCHANGED <<exc, exitStatus, artifact, stageLog>>
    /\ UNCHANGED <<bridgeTree, libDirFiles, srcs, generated_cc, filtered>>
    /\ UNCHANGED <<runVars, tcVars, depVars, cfgVars, cacheVars, cmdVars>>

\* run() has returned or raised: compile_node lines 939 and 1060
RunEnds ==
    /\ pc = "run"
    /\ runPc \in RunFinished
    /\ IF runPc = "returned"
       THEN pc' = NextStage("run") /\ exc' = exc
       ELSE pc' = "handler" /\ exc' = runPc
    /\ stageLog' = Append(stageLog, <<"compile", "end">>)
    /\ UNCHANGED <<exitStatus, artifact>>
    /\ UNCHANGED <<runVars, tcVars, depVars, discVars, cfgVars, cacheVars, cmdVars>>

\* compile_node lines 1062-1067 and main lines 1405-1410
VerifyArtifact ==
    /\ pc = "verify"
    /\ IF artifact
       THEN pc' = "exit" /\ exitStatus' = 0 /\ exc' = exc
       ELSE pc' = "handler" /\ exitStatus' = exitStatus /\ exc' = "RuntimeError"
    /\ UNCHANGED <<artifact, stageLog>>
    /\ UNCHANGED <<runVars, tcVars, depVars, discVars, cfgVars, cacheVars, cmdVars>>

\* the status main exits with when a build exception was caught
HandlerExitStatus_AlwaysFails(exists) == 1
\* main lines 1417-1423: the status the handler exits with
HandlerExitStatus(exists) == IF exists THEN 0 ELSE 1

\* main lines 1411-1423: except Exception
HandleException ==
    /\ pc = "handler"
    /\ exitStatus' = HandlerExitStatus(artifact)
    /\ pc' = "exit"
    /\ UNCHANGED <<exc, artifact, stageLog>>
    /\ UNCHANGED <<runVars, tcVars, depVars, discVars, cfgVars, cacheVars, cmdVars>>

(***************************************************************************)
(* Discovery and glue filtering alone, for every tree and lib directory.   *)
(***************************************************************************)
LibFiles(k) ==
    IF k = "msvc"
    THEN {cr_a_dash_b \o x_lib, cr_a_under_b \o x_lib, cr_c \o x_rlib}
    ELSE {n_lib \o cr_a_dash_b \o x_a, n_lib \o cr_a_under_b \o x_a,
          cr_c \o x_a}

\* the trees explored; with the profile "." the two candidate roots are one
\* directory, and so have one listing
BridgeTrees ==
    LET trees ==
          [root1 : {Dir(l) : l \in Listings(MaxCrates)} \cup {Absent},
           root2 : {Absent, Dir(<<>>),
                    Dir(<<[name |-> cr_a_dash_b, src |-> "cc",
                           rootcc |-> FALSE]>>)},
           out   : {Absent,
                    Dir(<<[name |-> cr_a_under_b, src |-> "cc",
                           rootcc |-> FALSE]>>),
                    Dir(<<[name |-> cr_c, src |-> "empty",
                           rootcc |-> FALSE]>>)},
           profile : {p_profile, <<".">>}]
    IN {t \in trees : t.profile = <<".">> => t.root1 = t.root2}

n_main_cc == <<"m",".","c","c">>

InitGlue ==
    /\ pc = "discover" /\ exc = "none" /\ exitStatus = -1
    /\ artifact = FALSE /\ stageLog = <<>>
    /\ RunIdle /\ DepsIdle /\ pkg_config_tool = TRUE /\ dependencies = <<>>
    /\ os_name = "posix" /\ env_CXX = <<>> /\ env_CXX_COMPILER = <<>>
    /\ preferred_toolchain = "none" /\ install_clang = FALSE
    /\ kind \in {"msvc", "gcc", "none"}
    /\ cc = IF kind = "msvc" THEN n_clang_cl ELSE n_gpp
    /\ pathFiles = {cc}
    /\ bridgeTree \in BridgeTrees
    /\ libDirFiles \in SUBSET LibFiles(kind)
    /\ srcs = <<n_main_cc>> /\ include_dirs = <<>>
    /\ generated_cc = <<>> /\ filtered = <<>>
    /\ CfgIdle /\ CmdIdle /\ CacheIdle

NextGlue == DiscoverArtifacts \/ SetupIncludeDirs \/ FilterGlueSources

SpecGlue == InitGlue /\ [][NextGlue]_vars

\* two names are equal or differ only by '-' versus '_'
SameUpToSeparator(a, b) == ReplaceChar(a, "-", "_") = ReplaceChar(b, "-", "_")

\* the lib.rs.cc glue sources discovered under a crate's src directory
IsCrateGlue(path) == path[Len(path)] = n_lib_rs_cc

\* C5: a crate's generated glue source is not compiled when a prebuilt
\* library exists whose name equals the crate directory name or differs
\* from it only by '-' versus '_', in either direction.
C5_GlueExcludedBothSpellings ==
    pc = "assemble" =>
        \A i \in 1..Len(generated_cc) :
            LET p == generated_cc[i]
            IN (/\ IsCrateGlue(p)
                /\ \E l \in AvailableLibs(libDirFiles, kind) :
                      SameUpToSeparator(l, CrateOf(p)))
               => p \notin Range(filtered)

(***************************************************************************)
(* The toolchain selection alone, for every environment.                   *)
(***************************************************************************)
InitToolchain ==
    /\ pc = "toolchain" /\ exc = "none" /\ exitStatus = -1
    /\ artifact = FALSE /\ stageLog = <<>>
    /\ RunIdle
    /\ os_name \in OsNames
    /\ env_CXX \in OverrideNames
    /\ env_CXX_COMPILER \in {<<>>, n_gpp, n_cl}
    /\ preferred_toolchain \in Toolchains
    /\ install_clang \in BOOLEAN
    /\ pathFiles \in SUBSET CompilerFiles(os_name)
    /\ cc = <<>> /\ kind = "none"
    /\ dependencies = <<>> /\ DepsIdle /\ pkg_config_tool = TRUE
    /\ DiscIdle /\ CmdIdle
    /\ config_present = (preferred_toolchain # "none")
    /\ (~config_present => ~install_clang)
    /\ build_timeout = DefaultTimeout
    /\ cxxflags = <<>> /\ ldflags = <<>> /\ suppress_warnings = FALSE
    /\ verbose_deps = FALSE /\ cfg_include_dirs = <<>>
    /\ cfg_lib_dirs = <<>> /\ cfg_libraries = <<>>
    /\ DocIdle /\ CacheIdle

NextToolchain == SelectCompiler

SpecToolchain == InitToolchain /\ [][NextToolchain]_vars

\* what the selected executable is: its name, lower case, without .exe
ExeIdentity(exe) ==
    LET l == Lower(exe)
    IN IF EndsWith(l, x_exe) THEN DropLast(l, 4) ELSE l

Selected == pc # "toolchain" /\ cc # <<>>

\* the head of the candidate list that a declared preference asks for
PreferredHead(pref, os) ==
    CASE pref = "msvc" -> n_cl
      [] pref = "clang" -> n_clangpp
      [] pref = "gcc" -> n_gpp
      [] OTHER -> IF os = "nt" THEN n_cl ELSE n_clangpp

\* C8: the selected compiler is the environment override whenever it is set
\* and on PATH; otherwise it is the first installed candidate of a list
\* whose head is the preferred compiler (platform default for auto / none).
C8_SelectionPriority ==
    Selected =>
        LET cc_env == CcEnv(env_CXX, env_CXX_COMPILER)
            cands == Candidates(preferred_toolchain, os_name)
        IN /\ Head(cands)[1] = PreferredHead(preferred_toolchain, os_name)
           /\ IF cc_env # <<>> /\ Which(cc_env, pathFiles, os_name) # <<>>
              THEN cc = cc_env
              ELSE cc = FirstFound(cands, pathFiles, os_name).cc

\* C9 as stated: the kind of the selected toolchain is MSVC exactly when the
\* selected executable is cl or clang-cl, whatever the declared preference.
C9_KindFromExecutable ==
    Selected => ((kind = "msvc") <=> (ExeIdentity(cc) \in {n_cl, n_clang_cl}))

\* C9 as amended: the kind of the selected toolchain is MSVC exactly when
\* the name of the selected executable, in lower case and without .exe, ends
\* in "cl", whatever the declared preference.
C9_KindFromName ==
    Selected => ((kind = "msvc") <=> EndsWith(ExeIdentity(cc), n_cl))

\* a preference for msvc that fell through to g++, selected as GCC-like
C9_Witness ==
    /\ Selected /\ preferred_toolchain = "msvc"
    /\ ExeIdentity(cc) = n_gpp /\ kind # "msvc"

(***************************************************************************)
(* The executor alone: run() is called with some timeout.                  *)
(***************************************************************************)
InitRun ==
    /\ pc = "run" /\ exc = "none" /\ exitStatus = -1
    /\ artifact \in BOOLEAN
    /\ stageLog = <<>>
    /\ runPc = "start"
    /\ capture_output \in BOOLEAN
    /\ timeout \in 1..MaxTimeout
    /\ clock = 0 /\ waitStart = 0 /\ procState = "none" /\ procRc = 0
    /\ stdoutOpen = FALSE /\ pipeLines = 0 /\ procEndClock = -1
    /\ CfgIdle /\ CmdIdle /\ CacheIdle
    /\ TcIdle
    /\ dependencies = <<>> /\ DepsIdle /\ pkg_config_tool = TRUE
    /\ DiscIdle

NextRun ==
    \/ Popen \/ ReadLine \/ ReadEOF \/ WaitReturns \/ WaitTimesOut
    \/ RunCaptured
    \/ ProcWritesLine \/ ProcClosesStdout \/ ProcWritesArtifact
    \/ ProcExits \/ Tick

SpecRun == InitRun /\ [][NextRun]_vars

\* C1: whenever the compiler process is still running when the build
\* timeout has elapsed, run() kills it and raises the timeout failure: a run
\* that has finished and whose process lived past the timeout has ended with
\* TimeoutExpired and a killed process, never with a process that ended on
\* its own and never as a success.
C1_TimeoutKillsProcess ==
    (runPc \in RunFinished /\ procEndClock > timeout)
        => (runPc = "TimeoutExpired" /\ procState = "killed")

(***************************************************************************)
(* The command assembly alone, for every configuration of flags.           *)
(***************************************************************************)
Flags == {f_Wall, f_Wextra, f_w, f_O2, f_O3, f_DX, f_fPIC, f_W4, f_plain}
FlagLists(n) == UNION {[1..k -> Flags] : k \in 0..n}
LdFlagLists == {<<>>, <<f_Wl>>, <<f_DEBUG>>}

\* a system dependency that declares the library z, resolved
ResolvedSystemDep == Decl("system", "none", <<>>, <<l_z>>, <<d_inc>>)

InitCmd ==
    /\ pc = "assemble" /\ exc = "none" /\ exitStatus = -1
    /\ artifact = FALSE
    /\ stageLog = << <<"toolchain", "begin">>, <<"toolchain", "end">>,
                     <<"discovery", "begin">>, <<"discovery", "end">> >>
    /\ RunIdle
    /\ kind \in {"msvc", "gcc"}
    /\ os_name \in (IF kind = "msvc" THEN {"nt"} ELSE OsNames)
    /\ cc = (IF kind = "msvc" THEN n_cl \o x_exe ELSE n_gpp)
    /\ pathFiles = {cc}
    /\ env_CXX = <<>> /\ env_CXX_COMPILER = <<>> /\ install_clang = FALSE
    /\ config_present \in BOOLEAN
    /\ preferred_toolchain = (IF config_present THEN "auto" ELSE "none")
    /\ IF config_present
       THEN /\ cxxflags \in FlagLists(MaxFlags)
            /\ ldflags \in LdFlagLists
            /\ suppress_warnings \in BOOLEAN
            /\ verbose_deps \in BOOLEAN
            /\ \E extras \in BOOLEAN :
                  /\ cfg_include_dirs = (IF extras THEN <<d_cfg_inc>> ELSE <<>>)
                  /\ cfg_lib_dirs = (IF extras THEN <<d_cfg_lib>> ELSE <<>>)
                  /\ cfg_libraries = (IF extras THEN <<l_m>> ELSE <<>>)
            /\ build_timeout = 1
            /\ dependencies \in {<<>>, <<ResolvedSystemDep>>}
       ELSE /\ cxxflags = <<>> /\ ldflags = <<>>
            /\ suppress_warnings = FALSE /\ verbose_deps = FALSE
            /\ cfg_include_dirs = <<>> /\ cfg_lib_dirs = <<>>
            /\ cfg_libraries = <<>> /\ build_timeout = DefaultTimeout
            /\ dependencies = <<>>
    /\ depIdx = Len(dependencies) /\ depCur = Len(dependencies)
    /\ probe = (IF dependencies = <<>> THEN NoProbe
                ELSE [NoProbe EXCEPT !.sysLibs = {l_z}])
    /\ resolved_deps = [i \in 1..Len(dependencies) |->
                          [source |-> p_usr, install |-> p_usr,
                           state |-> "system", headers |-> <<>>]]
    /\ pkg_config_tool = TRUE
    /\ LET c == CollectFrom(1, dependencies, resolved_deps,
                            [i \in 1..Len(dependencies) |-> "unused"])
       IN /\ dep_include_dirs = c.inc
          /\ dep_lib_dirs = c.libdir
          /\ dep_libraries = c.lib
    /\ \E a \in {x \in ArrowArtifacts : (x.lib = <<>>) = (x.inc = <<>>)} :
          /\ (~config_present => a.inc = <<>>)
          /\ arrow_include_dirs = a.inc
          /\ arrow_lib_dirs = a.libdir
          /\ arrow_libraries = a.lib
    /\ cmd = <<>>
    /\ DocIdle /\ CacheIdle
    /\ bridgeTree = [root1 |-> Dir(<<>>), root2 |-> Absent, out |-> Absent,
                     profile |-> p_profile]
    /\ libDirFiles \in {{}, {IF kind = "msvc" THEN n_dora_node_api_cxx \o x_lib
                             ELSE n_lib \o n_dora_node_api_cxx \o x_a}}
    /\ srcs = <<p_main_cc>>
    /\ include_dirs = <<p_project_include, p_deps_include, PathStr(Root1(p_profile))>>
    /\ generated_cc = <<>> /\ filtered = <<>>

NextCmd == AssembleMsvc \/ AssembleGcc

SpecCmd == InitCmd /\ [][NextCmd]_vars

\* the command of an MSVC build has been assembled
MsvcAssembled == cmd # <<>> /\ kind = "msvc"

\* C6: on the MSVC path every supported GCC-like item is in the command as
\* its table equivalent: -Wall, -Wextra, -w, -O2, -O3, -D<X> as /W3, /W4,
\* /w, /O2, /Ox, /D<X>; every include directory as "/I" followed by the
\* directory; every library directory as /LIBPATH:<dir>; every library name
\* contributed by dependencies or build config as <name>.lib.
C6_MsvcTableEquivalents ==
    MsvcAssembled =>
        LET table(f) ==
                CASE f = f_Wall -> m_W3
                  [] f = f_Wextra -> m_W4
                  [] f = f_w -> m_w
                  [] f = f_O2 -> m_O2
                  [] f = f_O3 -> m_Ox
                  [] OTHER -> m_D \o DropFirst(f, 2)
            supported(f) ==
                f \in {f_Wall, f_Wextra, f_w, f_O2, f_O3}
                \/ StartsWith(f, <<"-","D">>)
            incs == Range(include_dirs) \cup Range(arrow_include_dirs)
                    \cup Range(dep_include_dirs)
                    \cup {AbsDir(d) : d \in Range(cfg_include_dirs)}
            libdirs == {LibDirStr} \cup Range(arrow_lib_dirs)
                       \cup Range(dep_lib_dirs)
                       \cup {AbsDir(d) : d \in Range(cfg_lib_dirs)}
            names == Range(dep_libraries) \cup Range(cfg_libraries)
        IN /\ \A f \in Range(cxxflags) :
                 supported(f) => table(f) \in Range(cmd)
           /\ \A d \in incs :
                 \E i \in 1..(Len(cmd) - 1) : cmd[i] = m_I /\ cmd[i + 1] = d
           /\ \A d \in libdirs : (m_LIBPATH \o d) \in Range(cmd)
           /\ \A n \in names : (n \o x_lib) \in Range(cmd)

\* C7: on the MSVC path every declared flag that begins with '-' and has no
\* entry in the translation table, whether an extra compiler flag or an
\* extra linker flag, is dropped: it is not in the assembled command.
C7_MsvcDropsUnknownDashFlags ==
    MsvcAssembled =>
        \A f \in Range(cxxflags) \cup Range(ldflags) :
            (/\ StartsWith(f, <<"-">>)
             /\ f \notin {f_Wall, f_Wextra, f_w, f_O2, f_O3}
             /\ ~StartsWith(f, <<"-","D">>))
            => f \notin Range(cmd)

(***************************************************************************)
(* The versioned cache paths: cache.py.                                    *)
(***************************************************************************)
MaxRevLen == 2

v_1_0_0     == <<"v","1",".","0",".","0">>
v_1_1_0_rc1 == <<"v","1",".","1",".","0","-","r","c","1">>
v_1_2_0     == <<"v","1",".","2",".","0">>
v_1_3_0_RC1 == <<"v","1",".","3",".","0","-","R","C","1">>
v_peeled    == <<"^","{","}">>
n_main      == <<"m","a","i","n">>
n_default   == <<"d","e","f","a","u","l","t">>
x_git       == <<".","g","i","t">>
d_dora_url  == <<"h","/","d","o","r","a">>
d_dora_git  == <<"h","/","d","o","r","a",".","g","i","t","/">>
d_scp_url   == <<"g","@","h",":","d",".","g","i","t">>

\* line 152: the characters re.sub replaces
Reserved_KeepsSlash ==
    {"\\", ":", "*", "?", "\"", "<", ">", "|", "^", "{", "}"}
Reserved ==
    {"/", "\\", ":", "*", "?", "\"", "<", ">", "|", "^", "{", "}"}

RECURSIVE Strip(_, _)
\* str.strip(chars)
Strip(s, chars) ==
    IF s = <<>> THEN s
    ELSE IF Head(s) \in chars THEN Strip(Tail(s), chars)
    ELSE IF s[Len(s)] \in chars THEN Strip(DropLast(s, 1), chars)
    ELSE s

\* sanitize_for_filesystem, lines 147-158
SanitizeForFilesystem(name) ==
    LET replaced == [i \in 1..Len(name) |->
                        IF name[i] \in Reserved THEN "_" ELSE name[i]]
        stripped == Strip(replaced, {".", " "})
    IN IF stripped = <<>> THEN n_default ELSE stripped

\* git ls-remote --tags --sort=-version:refname: the tag names of the output
\* lines, highest version first. remote.tags lists the tags by ascending
\* version; an annotated tag has a second, peeled line "<tag>^{}", which
\* the version order puts above the line of the tag itself
LsRemoteTags(tags) ==
    Concat([i \in 1..Len(tags) |->
        LET t == tags[Len(tags) + 1 - i]
        IN IF t.annotated THEN <<t.name \o v_peeled, t.name>>
           ELSE <<t.name>>])

\* get_latest_git_tag, lines 17-35: the first listed tag that holds no
\* pre-release word; <<>> for None, also when the lookup fails
GetLatestGitTag(rem) ==
    LET listed == LsRemoteTags(rem.tags)
        release == SelectSeq(listed, LAMBDA tag :
            /\ tag # <<>>
            /\ \A w \in {<<"a","l","p","h","a">>, <<"b","e","t","a">>,
                         <<"r","c">>, <<"p","r","e">>, <<"d","e","v">>} :
                  ~Contains(Lower(tag), w))
    IN IF rem.ok /\ release # <<>> THEN Head(release) ELSE <<>>

RECURSIVE RStrip(_, _)
\* str.rstrip(ch)
RStrip(s, ch) ==
    IF s # <<>> /\ s[Len(s)] = ch THEN RStrip(DropLast(s, 1), ch) ELSE s

RECURSIVE LastComponent(_)
\* s.split('/')[-1]
LastComponent(s) ==
    IF "/" \notin Range(s) THEN s ELSE LastComponent(Tail(s))

\* lines 49-54 and 123-128: the name of the repository
RepoName(url, default) ==
    IF url # <<>>
    THEN LET repo_name == LastComponent(RStrip(url, "/"))
         IN IF EndsWith(repo_name, x_git) THEN DropLast(repo_name, 4)
            ELSE repo_name
    ELSE default

\* lines 57-70 and 131-144: what is sanitized, <<>> when nothing is
SafePart(rev, rem) ==
    IF rev # <<>> THEN SanitizeForFilesystem(rev)
    ELSE IF GetLatestGitTag(rem) # <<>>
    THEN SanitizeForFilesystem(GetLatestGitTag(rem))
    ELSE <<>>

\* the revision is looked up on the remote even when one is given
CachePath_AlwaysLatest(url, rev, default, rem) ==
    RepoName(url, default) \o <<"-">>
        \o (IF SafePart(<<>>, rem) # <<>> THEN SafePart(<<>>, rem) ELSE n_main)
\* get_dora_cache_path, lines 45-70, and get_arrow_cache_path, lines
\* 119-144: the directory name under the cache directory
CachePath(url, rev, default, rem) ==
    RepoName(url, default) \o <<"-">>
        \o (IF SafePart(rev, rem) # <<>> THEN SafePart(rev, rem) ELSE n_main)

RECURSIVE StringsUpTo(_, _)
\* the strings over an alphabet, up to a length
StringsUpTo(alphabet, n) ==
    IF n = 0 THEN {<<>>}
    ELSE LET shorter == StringsUpTo(alphabet, n - 1)
         IN shorter \cup {<<ch>> \o t : ch \in alphabet, t \in shorter}

\* the url arguments explored: None, a plain url, one with ".git/", and
\* an scp-like one
CacheUrls == {<<>>, d_dora_url, d_dora_git, d_scp_url}

\* the rev arguments explored: None and short strings with reserved
\* characters, dots and spaces
CacheRevs == StringsUpTo({"_", "/", ".", " "}, MaxRevLen)

Tag(name, annotated) == [name |-> name, annotated |-> annotated]

\* the remotes explored: unreachable, without tags, with pre-release tags
\* only, with lightweight tags, and with an annotated highest release
Remotes ==
    {[ok |-> FALSE, tags |-> <<>>],
     [ok |-> TRUE, tags |-> <<>>],
     [ok |-> TRUE, tags |-> <<Tag(v_1_1_0_rc1, FALSE)>>],
     [ok |-> TRUE, tags |-> <<Tag(v_1_0_0, FALSE), Tag(v_1_1_0_rc1, FALSE),
                              Tag(v_1_2_0, FALSE), Tag(v_1_3_0_RC1, TRUE)>>],
     [ok |-> TRUE, tags |-> <<Tag(v_1_0_0, FALSE), Tag(v_1_1_0_rc1, FALSE),
                              Tag(v_1_2_0, TRUE)>>]}

\* a call of one of the two functions
GetCachePath(fn, default) ==
    \E url \in CacheUrls, rev \in CacheRevs :
        /\ cache_fn' = fn /\ cache_url' = url /\ cache_rev' = rev
        /\ cache_path' = CachePath(url, rev, default, remote)
        /\ safe_name' = SafePart(rev, remote)
        /\ remote_changed' = FALSE
        /\ repeated' = (/\ cache_fn = fn /\ cache_url = url /\ cache_rev = rev
                        /\ remote_changed)
        /\ UNCHANGED <<remote, reuseVars, fwVars>>
        /\ UNCHANGED <<sessVars, runVars, tcVars, depVars, discVars, cfgVars,
                       cmdVars>>

GetDoraCachePath == GetCachePath("dora", n_dora)

GetArrowCachePath == GetCachePath("arrow", n_arrow)

\* tags are pushed or deleted, or the remote stops or starts answering
RemoteChanges ==
    /\ \E r \in Remotes : r # remote /\ remote' = r
    /\ remote_changed' = TRUE
    /\ UNCHANGED <<cache_fn, cache_url, cache_rev, cache_path, safe_name,
                   repeated, reuseVars, fwVars>>
    /\ UNCHANGED <<sessVars, runVars, tcVars, depVars, discVars, cfgVars,
                   cmdVars>>

InitCache ==
    /\ pc = "main" /\ exc = "none" /\ exitStatus = -1
    /\ artifact = FALSE /\ stageLog = <<>>
    /\ CfgIdle /\ RunIdle /\ TcIdle /\ DepsIdle /\ pkg_config_tool = TRUE /\ DiscIdle /\ CmdIdle
    /\ dependencies = <<>>
    /\ cache_fn = "none" /\ cache_url = <<>> /\ cache_rev = <<>>
    /\ cache_path = <<>> /\ safe_name = <<>>
    /\ remote \in Remotes
    /\ remote_changed = FALSE /\ repeated = FALSE
    /\ ReuseIdle /\ FwIdle

NextCache == GetDoraCachePath \/ GetArrowCachePath \/ RemoteChanges

SpecCache == InitCache /\ [][NextCache]_vars

\* the default repository name of the function last called
CacheDefault == IF cache_fn = "dora" THEN n_dora ELSE n_arrow

\* C13: when no revision is given, the suffix of the cache directory name
\* is the highest-versioned tag of the remote whose name holds none of
\* alpha, beta, rc, pre, dev (whatever the case); when the lookup fails or
\* there is no such tag the suffix is "main".
C13_LatestReleaseTagSuffix ==
    (cache_fn # "none" /\ cache_rev = <<>> /\ ~remote_changed) =>
        LET PreRelease(tag) ==
                \E w \in {<<"a","l","p","h","a">>, <<"b","e","t","a">>,
                          <<"r","c">>, <<"p","r","e">>, <<"d","e","v">>} :
                    Contains(Lower(tag), w)
            release == {i \in 1..Len(remote.tags) :
                            ~PreRelease(remote.tags[i].name)}
            highest == CHOOSE i \in release : \A j \in release : j <= i
            suffix == IF remote.ok /\ release # {}
                      THEN remote.tags[highest].name ELSE n_main
        IN cache_path = RepoName(cache_url, CacheDefault) \o <<"-">> \o suffix

\* C14: with a revision given, the cache path is a function of the url and
\* the revision alone: a call that repeats the arguments of the call before
\* it returns the same path, whatever happened to the remote in between.
C14_RevGivenPathIsPure ==
    [][(/\ cache_fn # "none" /\ cache_fn' = cache_fn
        /\ cache_url' = cache_url /\ cache_rev' = cache_rev
        /\ cache_rev # <<>>)
       => cache_path' = cache_path]_vars

\* a call with a revision repeated the call before it on a changed remote
C14_Witness ==
    /\ repeated /\ cache_rev # <<>>
    /\ remote.ok /\ GetLatestGitTag(remote) # <<>>

\* C15: sanitize_for_filesystem is idempotent, and what it returns holds
\* none of the characters / \ : * ? " < > | ^ { }.
C15_SanitizeIdempotentNoReserved ==
    (cache_fn # "none" /\ safe_name # <<>>) =>
        /\ SanitizeForFilesystem(safe_name) = safe_name
        /\ Range(safe_name) \cap {"/", "\\", ":", "*", "?", "\"", "<", ">",
                                  "|", "^", "{", "}"} = {}

\* a revision with a reserved character and a trailing dot was sanitized
C15_Witness ==
    /\ cache_fn # "none" /\ cache_rev = <<"/", ".">> /\ safe_name = <<"_">>

\* C16: with a revision given, the cache directory name is the sanitized
\* repository name, '-', and the sanitized revision, and so holds no
\* reserved character whatever the last component of the url holds.
C16_DirNameSanitized ==
    (cache_fn # "none" /\ cache_rev # <<>>) =>
        /\ cache_path =
              SanitizeForFilesystem(RepoName(cache_url, CacheDefault))
                  \o <<"-">> \o SanitizeForFilesystem(cache_rev)
        /\ Range(cache_path) \cap {"/", "\\", ":", "*", "?", "\"", "<", ">",
                                   "|", "^", "{", "}"} = {}

\* C22: for one url, two different pinned revisions never get the same
\* cache directory.
C22_DistinctRevisionsDistinctPaths ==
    [][(/\ cache_fn # "none" /\ cache_fn' = cache_fn
        /\ cache_url' = cache_url
        /\ cache_rev # <<>> /\ cache_rev' # <<>> /\ cache_rev' # cache_rev)
       => cache_path' # cache_path]_vars

(***************************************************************************)
(* The dependency cache across invocations: dependencies.py lines 82-122,  *)
(* 188-273 and 382-402.                                                    *)
(***************************************************************************)
MaxInvocations == 2
MaxHash == 1

d_eigen_url == <<"h","/","e","i","g","e","n",".","g","i","t">>
p_local_a   == <<"/","w","/","l","i","b","a">>
p_local_b   == <<"/","w","/","l","i","b","b">>
v_3_4       == <<"3",".","4">>

\* hashlib.md5(s.encode()).hexdigest()[:8], as a checksum of the characters
Md5Prefix(str) ==
    LET chars == <<"a","b","d","e","g","h","i","m","n","o","r","t",".",
                   "/","#","3","4">>
        code(ch) == IF ch \in Range(chars)
                    THEN CHOOSE i \in 1..Len(chars) : chars[i] = ch ELSE 0
        RECURSIVE sum(_, _)
        sum(rest, acc) ==
            IF rest = <<>> THEN acc
            ELSE sum(Tail(rest), (acc * 31 + code(Head(rest))) % 65536)
    IN sum(str, 7)

\* _create_cache_key, lines 389-402
CreateCacheKey(url, ref) ==
    LET key_string == url \o <<"#">> \o ref
        repo_name == RepoName(url, <<>>)
        safe == SelectSeq(repo_name, LAMBDA ch :
                    ch \in {"a","b","d","e","g","h","i","m","n","o","r","t",
                            "3","4","-","_"})
        safe_nm == IF Len(safe) > 8 THEN SubSeq(safe, 1, 8) ELSE safe
    IN [name |-> safe_nm, hash |-> Md5Prefix(key_string)]

\* the external commands _build_dependency runs, lines 209-273
BuildCommands(bs) ==
    CASE bs = "cmake" -> <<"configure", "build", "install">>
      [] bs = "make"  -> <<"make", "make install">>
      [] bs = "ninja" -> <<"ninja", "ninja install">>
      [] OTHER -> <<>>

\* the declarations explored: a git dependency at a default or a given
\* ref, and two local paths, each header-only or with a build system
ReuseDecls ==
    {[kind |-> "git", url |-> d_eigen_url, ref |-> r, path |-> <<>>,
      build_system |-> bs] : r \in {<<>>, v_3_4}, bs \in BuildSystems \cup {"none"}}
    \cup
    {[kind |-> "local", url |-> <<>>, ref |-> <<>>, path |-> pth,
      build_system |-> bs] :
        pth \in {p_local_a, p_local_b}, bs \in BuildSystems \cup {"none"}}

\* a process of the tool starts; Python draws the seed of its string hash
StartInvocation ==
    /\ reusePc = "idle" /\ invocation < MaxInvocations
    /\ invocation' = invocation + 1
    /\ path_hash' \in (0 - MaxHash)..MaxHash
    /\ did_clone' = FALSE /\ did_build' = FALSE
    /\ install_dir' = NoDir
    /\ reusePc' = "resolve"
    /\ UNCHANGED <<reuse_decl, repo_dirs, install_dirs, prev_install,
                   build_step, build_proc>>
    /\ UNCHANGED <<sessVars, runVars, tcVars, depVars, discVars, cfgVars,
                   cmdVars, pathVars, fwVars>>

\* lines 107-120 and 201-205: the install directory holds something, or the
\* dependency is built, or its headers are set up
InstallOrReuse(dir) ==
    /\ install_dir' = dir
    /\ IF dir \in install_dirs
       THEN /\ reusePc' = "done" /\ did_build' = FALSE
            /\ UNCHANGED <<install_dirs, build_step, build_proc>>
       ELSE IF reuse_decl.build_system # "none"
       THEN /\ reusePc' = "building" /\ did_build' = TRUE
            /\ build_step' = 1 /\ build_proc' = "running"
            /\ UNCHANGED install_dirs
       ELSE /\ reusePc' = "done" /\ did_build' = FALSE
            /\ install_dirs' = install_dirs \cup {dir}
            /\ UNCHANGED <<build_step, build_proc>>

\* _resolve_git_dependency, lines 82-122, up to the build
ResolveGitDependency ==
    /\ reusePc = "resolve" /\ reuse_decl.kind = "git"
    /\ LET ref == IF reuse_decl.ref # <<>> THEN reuse_decl.ref ELSE n_main
           key == CreateCacheKey(reuse_decl.url, ref)
           cache_dir == CacheDir("git", key.name, key.hash, "")
       IN \E clone_ok \in BOOLEAN :
             /\ did_clone' = (cache_dir \notin repo_dirs)
             /\ IF cache_dir \notin repo_dirs /\ ~clone_ok
                THEN /\ reusePc' = "failed"
                     /\ UNCHANGED <<repo_dirs, install_dirs, did_build,
                                    install_dir, build_step, build_proc>>
                ELSE /\ repo_dirs' = repo_dirs \cup {cache_dir}
                     /\ InstallOrReuse(CacheDir("git", key.name, key.hash,
                                                "install"))
    /\ UNCHANGED <<invocation, reuse_decl, path_hash, prev_install>>
    /\ UNCHANGED <<sessVars, runVars, tcVars, depVars, discVars, cfgVars,
                   cmdVars, pathVars, fwVars>>

\* _resolve_local_dependency, lines 188-207, up to the build
ResolveLocalDependency ==
    /\ reusePc = "resolve" /\ reuse_decl.kind = "local"
    /\ \E exists \in BOOLEAN :
          IF ~exists
          THEN /\ reusePc' = "failed"
               /\ UNCHANGED <<install_dirs, did_build, install_dir,
                              build_step, build_proc>>
          ELSE InstallOrReuse(
                  CacheDir("local", LastComponent(reuse_decl.path),
                           IF path_hash < 0 THEN 0 - path_hash ELSE path_hash,
                           ""))
    /\ did_clone' = FALSE
    /\ UNCHANGED <<invocation, reuse_decl, path_hash, repo_dirs, prev_install>>
    /\ UNCHANGED <<sessVars, runVars, tcVars, depVars, discVars, cfgVars,
                   cmdVars, pathVars, fwVars>>

\* the external build command exits, with a return code
BuildProcExits ==
    /\ reusePc = "building" /\ build_proc = "running"
    /\ build_proc' \in {"ok", "error"}
    /\ UNCHANGED <<reusePc, invocation, reuse_decl, path_hash, repo_dirs,
                   install_dirs, did_clone, did_build, install_dir,
                   prev_install, build_step>>
    /\ UNCHANGED <<sessVars, runVars, tcVars, depVars, discVars, cfgVars,
                   cmdVars, pathVars, fwVars>>

\* subprocess.run(args, cwd=..., check=True) returns or raises, lines
\* 223-273; the caller's handling of the failure, lines 111-117 and 203
BuildStepReturns ==
    /\ reusePc = "building" /\ build_proc \in {"ok", "error"}
    /\ IF build_proc = "ok"
          /\ build_step < Len(BuildCommands(reuse_decl.build_system))
       THEN /\ build_step' = build_step + 1 /\ build_proc' = "running"
            /\ UNCHANGED <<reusePc, install_dirs>>
       ELSE /\ build_step' = 0 /\ build_proc' = "none"
            /\ IF build_proc = "ok"
               THEN /\ reusePc' = "done"
                    /\ \E filled \in BOOLEAN :
                          install_dirs' = IF filled
                                          THEN install_dirs \cup {install_dir}
                                          ELSE install_dirs
               ELSE IF reuse_decl.kind = "git"
               THEN /\ reusePc' = "done"
                    /\ install_dirs' = install_dirs \cup {install_dir}
               ELSE /\ reusePc' = "failed"
                    /\ UNCHANGED install_dirs
    /\ UNCHANGED <<invocation, reuse_decl, path_hash, repo_dirs, did_clone,
                   did_build, install_dir, prev_install>>
    /\ UNCHANGED <<sessVars, runVars, tcVars, depVars, discVars, cfgVars,
                   cmdVars, pathVars, fwVars>>

\* the process exits; what it installed stays in the cache
EndInvocation ==
    /\ reusePc \in {"done", "failed"}
    /\ reusePc' = "idle"
    /\ prev_install' = IF reusePc = "done" /\ install_dir \in install_dirs
                       THEN install_dir ELSE prev_install
    /\ UNCHANGED <<invocation, reuse_decl, path_hash, repo_dirs, install_dirs,
                   did_clone, did_build, install_dir, build_step, build_proc>>
    /\ UNCHANGED <<sessVars, runVars, tcVars, depVars, discVars, cfgVars,
                   cmdVars, pathVars, fwVars>>

InitReuse ==
    /\ pc = "main" /\ exc = "none" /\ exitStatus = -1
    /\ artifact = FALSE /\ stageLog = <<>>
    /\ CfgIdle /\ RunIdle /\ TcIdle /\ DepsIdle /\ pkg_config_tool = TRUE /\ DiscIdle /\ CmdIdle
    /\ dependencies = <<>>
    /\ cache_fn = "none" /\ cache_url = <<>> /\ cache_rev = <<>>
    /\ cache_path = <<>> /\ safe_name = <<>>
    /\ remote = [ok |-> FALSE, tags |-> <<>>]
    /\ remote_changed = FALSE /\ repeated = FALSE
    /\ reusePc = "idle" /\ invocation = 0
    /\ reuse_decl \in ReuseDecls
    /\ path_hash = 0 /\ repo_dirs = {} /\ install_dirs = {}
    /\ did_clone = FALSE /\ did_build = FALSE
    /\ install_dir = NoDir /\ prev_install = NoDir
    /\ build_step = 0 /\ build_proc = "none"
    /\ FwIdle

\* the steps of the tool
ReuseSteps ==
    \/ StartInvocation \/ ResolveGitDependency \/ ResolveLocalDependency
    \/ BuildStepReturns \/ EndInvocation

NextReuse == ReuseSteps \/ BuildProcExits

SpecReuse == InitReuse /\ [][NextReuse]_vars

\* the tool takes the steps it can take; nothing makes the external
\* command exit
SpecReuseFair == SpecReuse /\ WF_vars(ReuseSteps)

\* C18: when an invocation left an install directory that holds something,
\* a later invocation with the same declaration does not clone, does not
\* build, and uses that same install directory, for git dependencies and
\* for local ones.
C18_LaterInvocationReuses ==
    (invocation >= 2 /\ reusePc = "done" /\ prev_install # NoDir) =>
        /\ ~did_clone /\ ~did_build
        /\ install_dir = prev_install

\* C20: a dependency build is bounded by a timeout: when an external build
\* command never exits, the resolution still ends, with a failure or with
\* the header-only fallback.
C20_DependencyBuildEnds ==
    (reusePc = "building") ~> (reusePc \in {"done", "failed"})

(***************************************************************************)
(* The whole build session, from main to sys.exit.                         *)
(***************************************************************************)
\* the PATH contents explored for a platform
SessionPaths(os) ==
    IF os = "nt" THEN {{}, {n_cl \o x_exe}} ELSE {{}, {n_gpp}}

\* the dependency declarations explored
SessionDeps ==
    {<<>>,
     <<Decl("system", "none", l_z, <<l_z>>, <<>>)>>,
     <<Decl("git", "cmake", <<>>, <<l_z>>, <<d_inc>>)>>,
     <<Decl("local", "cmake", <<>>, <<>>, <<>>)>>,
     <<Decl("vcpkg", "none", <<>>, <<>>, <<>>)>>}

\* the build-output trees explored
SessionTrees ==
    {[root1 |-> Absent, root2 |-> Absent, out |-> Absent,
      profile |-> p_profile],
     [root1 |-> Dir(<<[name |-> cr_a_dash_b, src |-> "cc", rootcc |-> FALSE]>>),
      root2 |-> Absent, out |-> Absent, profile |-> p_profile]}

\* the documents explored: none, one for each dependency list, one that
\* asks for clang, one that declares a timeout, one that declares an
\* exclude glob
SessionDocuments ==
    {NoDocument}
    \cup {Document(deps, FALSE, DefaultTimeout, <<>>) : deps \in SessionDeps}
    \cup {Document(<<>>, TRUE, DefaultTimeout, <<>>),
          Document(<<>>, FALSE, 1, <<>>),
          Document(<<>>, FALSE, DefaultTimeout, <<n_t_star>>)}

\* the node directories explored
SessionNodeFiles == {<<>>, <<n_main_cc, n_t_cc, n_h_h>>}

Init ==
    /\ pc = "load" /\ exc = "none" /\ exitStatus = -1
    /\ artifact \in BOOLEAN
    /\ stageLog = <<>>
    /\ RunIdle
    /\ os_name \in OsNames
    /\ env_CXX = <<>> /\ env_CXX_COMPILER = <<>>
    /\ document \in SessionDocuments
    /\ nodeFiles \in SessionNodeFiles
    /\ config_present = FALSE /\ preferred_toolchain = "none"
    /\ install_clang = FALSE /\ dependencies = <<>>
    /\ build_timeout = DefaultTimeout /\ cxxflags = <<>>
    /\ sources = <<>> /\ exclude_sources = <<>>
    /\ ldflags = <<>> /\ suppress_warnings = FALSE /\ verbose_deps = FALSE
    /\ cfg_include_dirs = <<>> /\ cfg_lib_dirs = <<>> /\ cfg_libraries = <<>>
    /\ pathFiles \in SessionPaths(os_name)
    /\ (document.install_clang => pathFiles = {})
    /\ cc = <<>> /\ kind = "none"
    /\ DepsIdle
    /\ pkg_config_tool \in
          (IF \E i \in 1..Len(document.dependencies) :
                  document.dependencies[i].pkg_config # <<>>
           THEN BOOLEAN ELSE {TRUE})
    /\ /\ CmdIdle /\ CacheIdle
    /\ bridgeTree \in SessionTrees
    /\ libDirFiles = {}
    /\ srcs = <<>> /\ include_dirs = <<>>
    /\ generated_cc = <<>> /\ filtered = <<>>

Next ==
    \/ LoadConfig \/ MainEnsureClang \/ EnsureDoraPrepared \/ SelectCompiler
    \/ SourceDiscovery
    \/ ResolveGit \/ ResolveLocal \/ ResolveSystem \/ ResolveVcpkg
    \/ CollectDependencyInfo \/ NoDependencies
    \/ PrepareArrow \/ DiscoverArtifacts \/ SetupIncludeDirs
    \/ FilterGlueSources \/ AssembleMsvc \/ AssembleGcc
    \/ Popen \/ ReadLine \/ ReadEOF \/ WaitReturns \/ WaitTimesOut
    \/ ProcWritesLine \/ ProcClosesStdout \/ ProcWritesArtifact
    \/ ProcExits \/ Tick
    \/ RunEnds \/ VerifyArtifact \/ HandleException

Spec == Init /\ [][Next]_vars

\* the session has ended after it reached the compile step
EndedAfterCompile ==
    /\ pc = "exit"
    /\ <<"compile", "begin">> \in Range(stageLog)

\* C2: a session that reached the compile step exits with status zero if
\* and only if the expected artifact exists when the session ends.
C2_ExitZeroIffArtifact ==
    EndedAfterCompile => ((exitStatus = 0) <=> artifact)

\* the compiler failed or timed out, left the artifact, and the exit is zero
C2_Witness ==
    /\ EndedAfterCompile
    /\ exc \in {"CalledProcessError", "TimeoutExpired"}
    /\ artifact /\ exitStatus = 0

\* C23: a session exits with status zero only if it reached its own compiler
\* invocation, whatever artifact was at the expected path when it started.
C23_ExitZeroOnlyAfterCompile ==
    (pc = "exit" /\ exitStatus = 0) =>
        <<"compile", "begin">> \in Range(stageLog)

\* the position of an event in the stage log, 0 when it has not happened
Pos(stage, what) ==
    IF <<stage, what>> \in Range(stageLog)
    THEN CHOOSE i \in 1..Len(stageLog) : stageLog[i] = <<stage, what>>
    ELSE 0

\* once stage b has begun, stage a has completed before, if a runs at all
Precedes(a, b) ==
    (Pos(b, "begin") > 0 /\ Pos(a, "begin") > 0)
        => (Pos(a, "end") > 0 /\ Pos(a, "end") < Pos(b, "begin"))

\* a stage that has begun ends before any other stage begins
NoOverlap ==
    \A i \in 1..(Len(stageLog) - 1) :
        stageLog[i][2] = "begin" => stageLog[i + 1] = <<stageLog[i][1], "end">>

\* C10 as stated: dependency resolution completes before toolchain
\* selection begins, toolchain selection before artifact discovery, and
\* artifact discovery before the compiler is invoked, with no overlap.
C10_DependenciesThenToolchain ==
    /\ NoOverlap
    /\ Precedes("dependencies", "toolchain")
    /\ Precedes("toolchain", "discovery")
    /\ Precedes("discovery", "compile")

\* C10 as amended: toolchain selection completes before dependency
\* resolution begins, dependency resolution before artifact discovery, and
\* artifact discovery before the compiler is invoked, with no overlap.
C10_ToolchainThenDependencies ==
    /\ NoOverlap
    /\ Precedes("toolchain", "dependencies")
    /\ Precedes("dependencies", "discovery")
    /\ Precedes("toolchain", "discovery")
    /\ Precedes("discovery", "compile")
    /\ (Pos("dependencies", "begin") > 0 => Pos("toolchain", "end") > 0)
    /\ (Pos("discovery", "begin") > 0 => Pos("toolchain", "end") > 0)
    /\ (Pos("compile", "begin") > 0 => Pos("discovery", "end") > 0)

\* a session with dependencies in which all four stages have run
C10_Witness ==
    /\ Pos("toolchain", "end") > 0
    /\ Pos("dependencies", "end") > 0
    /\ Pos("discovery", "end") > 0
    /\ Pos("compile", "end") > 0
    /\ Pos("toolchain", "end") < Pos("dependencies", "begin")

\* C11: in the assembled command, for both toolchain kinds, the include
\* directories appear in this order: the project-local include directory,
\* then the include directories contributed by the resolved dependencies,
\* then the discovered bridge include directories, then the framework-
\* vendor include directories.
C11_IncludeOrder ==
    cmd # <<>> =>
        LET at(d) == {i \in 1..Len(cmd) :
                        \/ i > 1 /\ cmd[i - 1] \in {g_I, m_I} /\ cmd[i] = d
                        \/ cmd[i] = g_I \o d}
            before(A, B) ==
                \A a \in A, b \in B : \A i \in at(a), j \in at(b) : i < j
            project == {p_project_include}
            deps == Range(dep_include_dirs)
            found == FindCxxbridgeArtifacts(bridgeTree).include_dirs
            bridge == {PathStr(found[i]) : i \in 1..Len(found)}
            vendor == {p_vendor}
        IN /\ before(project, deps)
           /\ before(deps, bridge)
           /\ before(bridge, vendor)

\* C12: when the configuration document declares exclude globs, the node
\* sources handed to the compiler are exactly the discovered sources of the
\* node directory whose relative path matches none of the declared globs.
C12_ExcludedSourcesNotCompiled ==
    (cmd # <<>> /\ config_present /\ document.exclude_sources # <<>>) =>
        LET discovered == DiscoverSources(document.sources, nodeFiles)
            kept == {f \in Range(discovered) :
                        \A i \in 1..Len(document.exclude_sources) :
                            ~FnMatch(f, document.exclude_sources[i], os_name)}
        IN \A f \in Range(nodeFiles) :
              Join(p_node_dir, f) \in Range(cmd) <=> f \in kept

\* C19: every build setting the configuration document declares is carried
\* into the configuration the build uses: the toolchain, the flags, the
\* source and exclude globs, the warning-suppression policy and the build
\* timeout; the declared timeout is the one the compile run is given.
C19_DeclaredSettingsCarried ==
    config_present =>
        /\ preferred_toolchain = document.toolchain
        /\ cxxflags = document.cxxflags
        /\ sources = document.sources
        /\ exclude_sources = document.exclude_sources
        /\ suppress_warnings = document.suppress_warnings
        /\ build_timeout = document.build_timeout
        /\ (cmd # <<>> => timeout = document.build_timeout)

(***************************************************************************)
(* Artifact discovery alone, for every tree, with an empty lib directory.  *)
(***************************************************************************)
InitDiscovery ==
    /\ pc = "discover" /\ exc = "none" /\ exitStatus = -1
    /\ artifact = FALSE /\ stageLog = <<>>
    /\ CfgIdle /\ RunIdle /\ TcIdle /\ DepsIdle /\ pkg_config_tool = TRUE /\ dependencies = <<>>
    /\ CmdIdle /\ CacheIdle
    /\ bridgeTree \in BridgeTrees
    /\ libDirFiles = {}
    /\ srcs = <<n_main_cc>> /\ include_dirs = <<>>
    /\ generated_cc = <<>> /\ filtered = <<>>

SpecDiscovery == InitDiscovery /\ [][NextGlue]_vars

\* the crate directory a discovered glue source lies in: the parent of src
\* for lib.rs.cc, the parent directory for a .cc file at the crate root
OwnerCrate(path) ==
    IF IsCrateGlue(path) THEN path[Len(path) - 2] ELSE path[Len(path) - 1]

\* C25: when a prebuilt library of a crate exists in the library directory,
\* no glue source discovered for that crate is compiled, neither lib.rs.cc
\* under its src directory nor a .cc file at the crate root.
C25_PrebuiltCrateGlueNotCompiled ==
    pc = "assemble" =>
        \A i \in 1..Len(generated_cc) :
            LibraryExistsFor(OwnerCrate(generated_cc[i]),
                             AvailableLibs(libDirFiles, kind))
            => generated_cc[i] \notin Range(filtered)

\* C17: for any build-output tree, also one where the two candidate bridge
\* roots are the same directory, the include-directory list and the
\* generated-source list of the discovery hold no path twice and keep the
\* paths in the order in which they were first discovered.
C17_DedupKeepsFirstSeenOrder ==
    pc = "includes" =>
        LET raw == RawArtifacts(bridgeTree)
            rawInc == [i \in 1..Len(raw.include_dirs) |->
                          PathStr(raw.include_dirs[i])]
            First(xs, x) == CHOOSE i \in 1..Len(xs) :
                                xs[i] = x /\ \A j \in 1..(i - 1) : xs[j] # x
            Ordered(out, xs) ==
                /\ Range(out) = Range(xs)
                /\ \A i, j \in 1..Len(out) :
                      i < j => /\ out[i] # out[j]
                               /\ First(xs, out[i]) < First(xs, out[j])
        IN /\ Ordered(include_dirs, rawInc)
           /\ Ordered(generated_cc, raw.generated_cc)

\* the discovery ran on a tree whose two roots are one directory with a
\* crate, so that every path of the root was discovered twice
C17_Witness ==
    /\ pc = "includes"
    /\ bridgeTree.profile = <<".">>
    /\ bridgeTree.root1.exists /\ bridgeTree.root1.crates # <<>>
    /\ Len(RawArtifacts(bridgeTree).include_dirs) > Len(include_dirs)
    /\ Len(RawArtifacts(bridgeTree).generated_cc) > Len(generated_cc)

(***************************************************************************)
(* Arrow: ensure_arrow_prepared, build_arrow_cpp and find_arrow_artifacts.  *)
(***************************************************************************)
n_libarrow_a    == <<"l","i","b","a","r","r","o","w",".","a">>
n_libarrow_so   == <<"l","i","b","a","r","r","o","w",".","s","o">>
n_libarrow_so17 == <<"l","i","b","a","r","r","o","w",".","s","o",".","1","7">>
n_arrow_lib     == <<"a","r","r","o","w",".","l","i","b">>
n_arrow_dll     == <<"a","r","r","o","w",".","d","l","l">>
n_libarrow_acero_a == <<"l","i","b","a","r","r","o","w","_","a","c","e","r","o",".","a">>
n_arrow_static_lib == <<"a","r","r","o","w","_","s","t","a","t","i","c",".","l","i","b">>

LibFile(name, is) == [name |-> name, is |-> is]

\* prepare_arrow.py lines 124-129 and 203-208: what cmake installs into
\* <install>/lib with -DARROW_BUILD_SHARED=ON -DARROW_BUILD_STATIC=OFF
ArrowBuildOutput(os) ==
    LET build_shared == TRUE
        build_static == FALSE
    IN IF os = "nt"
       THEN (IF build_shared
             THEN {LibFile(n_arrow_dll, "shared"), LibFile(n_arrow_lib, "import")}
             ELSE {})
            \cup (IF build_static /\ ~build_shared
                  THEN {LibFile(n_arrow_lib, "static")} ELSE {})
       ELSE (IF build_shared
             THEN {LibFile(n_libarrow_so, "shared"),
                   LibFile(n_libarrow_so17, "shared")}
             ELSE {})
            \cup (IF build_static
                  THEN {LibFile(n_libarrow_a, "static")} ELSE {})

\* the lib directories a user may have installed
ArrowUserLibDirs(os) ==
    LET files == IF os = "nt"
                 THEN {LibFile(n_arrow_lib, "static"),
                       LibFile(n_arrow_lib, "import"),
                       LibFile(n_arrow_dll, "shared"),
                       LibFile(n_arrow_static_lib, "static")}
                 ELSE {LibFile(n_libarrow_a, "static"),
                       LibFile(n_libarrow_acero_a, "static"),
                       LibFile(n_libarrow_so, "shared"),
                       LibFile(n_libarrow_so17, "shared")}
    IN {d \in SUBSET files : \A f, g \in d : f.name = g.name => f = g}

\* ensure_arrow_prepared, build_cxx_node.py lines 126-186; a failed
\* preparation is caught by compile_node, lines 621-632
EnsureArrowPrepared ==
    /\ arrowPc = "ensure"
    /\ LET has_libs == \E f \in arrowLibFiles :
                           FnMatch(f.name, <<"*","a","r","r","o","w","*">>,
                                   "posix")
           has_arrow == arrow_has_include /\ has_libs
           built == ArrowBuildOutput(os_name)
       IN IF has_arrow
          THEN /\ arrowPc' = "find"
               /\ UNCHANGED <<arrowLibFiles, arrow_has_include, arrow_built>>
          ELSE \E success \in BOOLEAN :
                  IF success
                  THEN /\ arrowPc' = "find"
                       /\ arrowLibFiles' =
                             built \cup {f \in arrowLibFiles :
                                            \A g \in built : g.name # f.name}
                       /\ arrow_has_include' = TRUE
                       /\ arrow_built' = TRUE
                  ELSE /\ arrowPc' = "done"
                       /\ UNCHANGED <<arrowLibFiles, arrow_has_include,
                                      arrow_built>>
    /\ UNCHANGED arrow_kinds
    /\ UNCHANGED <<sessVars, runVars, tcVars, depVars, discVars, cfgVars,
                   cmdVars, pathVars, reuseVars, doraVars, raceVars>>

\* find_arrow_artifacts, build_cxx_node.py lines 396-453
FindArrowArtifacts ==
    /\ arrowPc = "find"
    /\ LET Globbed(pat) ==
               SetToSeq({f \in arrowLibFiles : FnMatch(f.name, pat, "posix")})
           Stem1(name) ==
               IF "." \in Range(name)
               THEN SubSeq(name, 1,
                           (CHOOSE i \in 1..Len(name) :
                               name[i] = "." /\ "." \notin Range(SubSeq(name, 1, i - 1))) - 1)
               ELSE name
           a_files == Globbed(<<"l","i","b","a","r","r","o","w","*",".","a">>)
           lib_files == Globbed(<<"a","r","r","o","w","*",".","l","i","b">>)
           so_files == Globbed(<<"l","i","b","a","r","r","o","w","*",".","s","o">>)
           static_libs ==
               [i \in 1..Len(a_files) |-> Stem1(DropFirst(a_files[i].name, 3))]
               \o [i \in 1..Len(lib_files) |-> Stem1(lib_files[i].name)]
           shared_libs ==
               [i \in 1..Len(so_files) |-> Stem1(DropFirst(so_files[i].name, 3))]
           used == IF static_libs # <<>> THEN a_files \o lib_files
                   ELSE so_files
       IN /\ arrow_include_dirs' =
                (IF arrow_has_include THEN <<p_arrow_inc>> ELSE <<>>)
          /\ arrow_lib_dirs' = <<p_arrow_lib>>
          /\ arrow_libraries' =
                Dedup(IF static_libs # <<>> THEN static_libs ELSE shared_libs,
                      {})
          /\ arrow_kinds' = {used[i].is : i \in 1..Len(used)}
    /\ arrowPc' = "done"
    /\ UNCHANGED <<arrowLibFiles, arrow_has_include, arrow_built, cmd>>
    /\ UNCHANGED <<sessVars, runVars, tcVars, depVars, discVars, cfgVars,
                   pathVars, reuseVars, doraVars, raceVars>>

InitArrow ==
    /\ pc = "arrow" /\ exc = "none" /\ exitStatus = -1
    /\ artifact = FALSE /\ stageLog = <<>>
    /\ CfgIdle /\ RunIdle /\ DepsIdle /\ pkg_config_tool = TRUE /\ DiscIdle /\ CmdIdle
    /\ dependencies = <<>>
    /\ os_name \in OsNames /\ env_CXX = <<>> /\ env_CXX_COMPILER = <<>>
    /\ preferred_toolchain = "none" /\ install_clang = FALSE
    /\ pathFiles = {n_gpp} /\ cc = n_gpp /\ kind = "gcc"
    /\ cache_fn = "none" /\ cache_url = <<>> /\ cache_rev = <<>>
    /\ cache_path = <<>> /\ safe_name = <<>>
    /\ remote = [ok |-> FALSE, tags |-> <<>>]
    /\ remote_changed = FALSE /\ repeated = FALSE
    /\ ReuseIdle /\ DoraIdle /\ RaceIdle
    /\ arrowPc = "ensure" /\ arrow_kinds = {}
    /\ \/ /\ arrow_built = TRUE /\ arrow_has_include = TRUE
          /\ arrowLibFiles = ArrowBuildOutput(os_name)
       \/ /\ arrow_built = FALSE /\ arrow_has_include \in BOOLEAN
          /\ arrowLibFiles \in ArrowUserLibDirs(os_name)

NextArrow == EnsureArrowPrepared \/ FindArrowArtifacts

SpecArrow == InitArrow /\ [][NextArrow]_vars

\* C21: when the Arrow installation was prepared by the tool, in this
\* session or an earlier one, the Arrow libraries put on the link line are
\* taken from static archives only, never from shared libraries.
C21_ToolPreparedArrowIsStatic ==
    (arrowPc = "done" /\ arrow_built /\ arrow_libraries # <<>>) =>
        arrow_kinds \subseteq {"static"}

(***************************************************************************)
(* The Dora target directory of one session: main lines 1343-1361,         *)
(* compile_node lines 466-473, 650-653 and 659-669, find_dora_target_dir,  *)
(* ensure_dora_prepared and prepare_dora.git_clone_or_update.  --fetch-dora *)
(* is not given.  A directory is named by its string; each holds a state   *)
(* ("absent", "checkout": a repository without target, "empty": a target   *)
(* without bridge artifacts, "artifacts") and the revision checked out.    *)
(***************************************************************************)
d_explicit    == <<"/","x">>
d_third_party == <<"/","t","p">>
d_project     == <<"/","p","r","j">>

\* the pinned revisions explored, <<>> for none
DoraRevs == {<<>>, v_1_0_0}

\* what a tag lookup can find: no answer, or the release v1.2.0
DoraRemotes ==
    {[ok |-> FALSE, tags |-> <<>>],
     [ok |-> TRUE, tags |-> <<Tag(v_1_0_0, FALSE), Tag(v_1_2_0, FALSE)>>]}

\* cache.py line 70: cache_dir / "dora" / f"{repo_name}-{safe_version}",
\* for every revision and every answer of the tag lookup
DoraPathTable ==
    [rev \in DoraRevs, rem \in DoraRemotes |->
        CachePath(d_dora_url, rev, n_dora, rem)]

DoraCachePath(rev, rem) == DoraPathTable[rev, rem]

\* get_dora_cache_path() without arguments, line 36
DefaultPathTable ==
    [rem \in DoraRemotes |-> CachePath(<<>>, <<>>, n_dora, rem)]

DoraCachePaths == {DoraCachePath(rev, rem) : rev \in DoraRevs, rem \in DoraRemotes}

DoraDirs == DoraCachePaths \cup {d_explicit, d_third_party, d_project}

DirEntry(state, checkout) == [state |-> state, checkout |-> checkout]

\* the version a cache path is made from, cache.py lines 57-68
NamedByTable ==
    [rev \in DoraRevs, rem \in DoraRemotes |->
        IF rev # <<>> THEN rev
        ELSE IF GetLatestGitTag(rem) # <<>> THEN GetLatestGitTag(rem)
        ELSE n_main]

NamedBy(rev, rem) == NamedByTable[rev, rem]

\* the revision whose cache entry has this name
KeyRevTable ==
    [name \in DoraCachePaths |->
        CHOOSE x \in {v_1_0_0, v_1_2_0, n_main} :
            n_dora \o <<"-">> \o SanitizeForFilesystem(x) = name]

KeyRev(name) == KeyRevTable[name]

\* find_dora_target_dir, lines 26-48; main always passes a dora_git, so the
\* fallback to the default latest cache entry is always tried
FindDoraTargetDir(rev, d, r1, r2) ==
    LET HasTarget(x) == d[x].state \in {"empty", "artifacts"}
        cache_target == DoraCachePath(rev, r1)
        default_cache_target == DefaultPathTable[r2]
    IN IF HasTarget(cache_target) THEN cache_target
       ELSE IF HasTarget(default_cache_target) THEN default_cache_target
       ELSE IF HasTarget(d_third_party) THEN d_third_party
       ELSE d_project

\* prepare_dora.git_clone_or_update, lines 30-49: an existing directory is
\* fetched and rev or "main" checked out, a failure is only warned about; a
\* missing one is cloned, with --branch rev when a revision is given, and a
\* failure raises.  A clone without --branch checks out the default branch,
\* which is main.
GitCloneOrUpdate(d, dest, rev, ok) ==
    LET ref == IF rev # <<>> THEN rev ELSE n_main
    IN IF d[dest].state # "absent"
       THEN [raised |-> FALSE,
             disk |-> IF ok THEN [d EXCEPT ![dest].checkout = ref] ELSE d]
       ELSE IF ok
       THEN [raised |-> FALSE,
             disk |-> [d EXCEPT ![dest] = DirEntry("checkout", ref)]]
       ELSE [raised |-> TRUE, disk |-> d]

\* build_workspace and build_manifests, lines 110-116: failures are ignored;
\* the build writes the bridge artifacts, only the target directory, or
\* nothing
BuildDora(d, repo, out) ==
    [d EXCEPT ![repo].state =
        IF out = "artifacts" \/ @ = "artifacts" THEN "artifacts"
        ELSE IF out = "empty" THEN "empty" ELSE @]

\* ensure_dora_prepared, lines 74-123, with the answers r[1..5] of the tag
\* lookups it makes, the outcome of git and the outcome of the build
EnsureDoraResult(rev, d, r, ok, out) ==
    LET dora_target_path == FindDoraTargetDir(rev, d, r[1], r[2])
        has_cxxbridge == d[dora_target_path].state = "artifacts"
        vendor == DoraCachePath(rev, r[3])
        g == GitCloneOrUpdate(d, vendor, rev, ok)
        d2 == BuildDora(g.disk, vendor, out)
    IN IF has_cxxbridge
       THEN [raised |-> FALSE, target |-> dora_target_path, disk |-> d,
             resolved |-> {DoraCachePath(rev, r[1])}, prepared |-> {}]
       ELSE IF g.raised
       THEN [raised |-> TRUE, target |-> <<>>, disk |-> d,
             resolved |-> {DoraCachePath(rev, r[1]), vendor},
             prepared |-> {}]
       ELSE [raised |-> FALSE,
             target |-> FindDoraTargetDir(rev, d2, r[4], r[5]),
             disk |-> d2,
             resolved |-> {DoraCachePath(rev, r[1]), vendor,
                           DoraCachePath(rev, r[4])},
             prepared |-> {[dir |-> vendor, named |-> NamedBy(rev, r[3]),
                            checkout |-> d2[vendor].checkout]}]

DoraAnswers == [1..5 -> DoraRemotes]
BuildOutcomes == {"artifacts", "empty", "nothing"}

\* main, lines 1343-1361
DoraMain ==
    /\ doraPc = "main"
    /\ \E r \in DoraAnswers, ok \in BOOLEAN, out \in BuildOutcomes :
        LET e == EnsureDoraResult(dora_rev, dora_disk, r, ok, out)
            found == FindDoraTargetDir(dora_rev, dora_disk, r[4], r[5])
            looked == {DoraCachePath(dora_rev, r[4])}
        IN IF explicit_target
           THEN /\ dora_target' = d_explicit
                /\ UNCHANGED <<dora_disk, resolved_paths, prepared>>
           ELSE IF no_auto_prepare
           THEN /\ dora_target' = found
                /\ resolved_paths' = resolved_paths \cup looked
                /\ UNCHANGED <<dora_disk, prepared>>
           ELSE IF e.raised
           THEN /\ dora_target' = found
                /\ resolved_paths' = resolved_paths \cup e.resolved \cup looked
                /\ UNCHANGED <<dora_disk, prepared>>
           ELSE /\ dora_target' = e.target
                /\ dora_disk' = e.disk
                /\ resolved_paths' = resolved_paths \cup e.resolved
                /\ prepared' = prepared \cup e.prepared
    /\ doraPc' = "compile"
    /\ UNCHANGED <<dora_rev, explicit_target, no_auto_prepare, scanned_dir,
                   vendor_dir>>
    /\ UNCHANGED <<sessVars, runVars, tcVars, depVars, discVars, cfgVars,
                   cmdVars, pathVars, reuseVars, arrowVars, raceVars>>

\* compile_node, lines 466-473: Dora is prepared again whatever dora_target
\* holds; the argument is kept only when the preparation raises
DoraCompileNode ==
    /\ doraPc = "compile"
    /\ \E r \in DoraAnswers, ok \in BOOLEAN, out \in BuildOutcomes :
        LET e == EnsureDoraResult(dora_rev, dora_disk, r, ok, out)
        IN /\ dora_target' = IF e.raised THEN dora_target ELSE e.target
           /\ dora_disk' = e.disk
           /\ resolved_paths' = resolved_paths \cup e.resolved
           /\ prepared' = prepared \cup e.prepared
    /\ doraPc' = "discover"
    /\ UNCHANGED <<dora_rev, explicit_target, no_auto_prepare, scanned_dir,
                   vendor_dir>>
    /\ UNCHANGED <<sessVars, runVars, tcVars, depVars, discVars, cfgVars,
                   cmdVars, pathVars, reuseVars, arrowVars, raceVars>>

\* compile_node, lines 650-653: the artifacts are looked for under
\* dora_target; without any the session ends with a RuntimeError
DoraDiscover ==
    /\ doraPc = "discover"
    /\ scanned_dir' = dora_target
    /\ doraPc' = IF dora_disk[dora_target].state = "artifacts"
                 THEN "vendor" ELSE "done"
    /\ UNCHANGED <<dora_rev, explicit_target, no_auto_prepare, dora_target,
                   dora_disk, resolved_paths, prepared, vendor_dir>>
    /\ UNCHANGED <<sessVars, runVars, tcVars, depVars, discVars, cfgVars,
                   cmdVars, pathVars, reuseVars, arrowVars, raceVars>>

\* compile_node, lines 659-681: the companion headers come from the first
\* of the cache path and third_party/dora that exists
DoraVendorIncludes ==
    /\ doraPc = "vendor"
    /\ \E rem \in DoraRemotes :
        LET path == DoraCachePath(dora_rev, rem)
        IN /\ vendor_dir' =
                 IF dora_disk[path].state # "absent" THEN path
                 ELSE IF dora_disk[d_third_party].state # "absent"
                 THEN d_third_party ELSE <<>>
           /\ resolved_paths' = resolved_paths \cup {path}
    /\ doraPc' = "done"
    /\ UNCHANGED <<dora_rev, explicit_target, no_auto_prepare, dora_target,
                   dora_disk, prepared, scanned_dir>>
    /\ UNCHANGED <<sessVars, runVars, tcVars, depVars, discVars, cfgVars,
                   cmdVars, pathVars, reuseVars, arrowVars, raceVars>>

\* the disks explored: every cache entry is absent, a checkout that was
\* never built, or built, and holds the revision its name is made from;
\* third_party/dora and the explicit directory are absent or built
DoraDisks ==
    LET CacheStates == [DoraCachePaths -> {"absent", "checkout", "artifacts"}]
        Built == {"absent", "artifacts"}
    IN {[x \in DoraDirs |->
            IF x \in DoraCachePaths
            THEN DirEntry(cs[x], IF cs[x] = "absent" THEN <<>> ELSE KeyRev(x))
            ELSE IF x = d_explicit THEN DirEntry(ex, <<>>)
            ELSE IF x = d_third_party THEN DirEntry(tp, <<>>)
            ELSE DirEntry("empty", <<>>)] :
          cs \in CacheStates, ex \in Built, tp \in Built}

InitDora ==
    /\ pc = "main" /\ exc = "none" /\ exitStatus = -1
    /\ artifact = FALSE /\ stageLog = <<>>
    /\ CfgIdle /\ RunIdle /\ TcIdle /\ DepsIdle /\ pkg_config_tool = TRUE
    /\ DiscIdle /\ CmdIdle /\ dependencies = <<>>
    /\ cache_fn = "none" /\ cache_url = <<>> /\ cache_rev = <<>>
    /\ cache_path = <<>> /\ safe_name = <<>>
    /\ remote = [ok |-> FALSE, tags |-> <<>>]
    /\ remote_changed = FALSE /\ repeated = FALSE
    /\ ReuseIdle /\ ArrowIdle /\ RaceIdle
    /\ doraPc = "main" /\ dora_rev \in DoraRevs
    /\ explicit_target \in BOOLEAN /\ no_auto_prepare \in BOOLEAN
    /\ dora_target = <<>>
    /\ dora_disk \in DoraDisks
    /\ (~explicit_target => dora_disk[d_explicit].state = "absent")
    /\ resolved_paths = {} /\ prepared = {}
    /\ scanned_dir = <<>> /\ vendor_dir = <<>>

NextDora == DoraMain \/ DoraCompileNode \/ DoraDiscover \/ DoraVendorIncludes

SpecDora == InitDora /\ [][NextDora]_vars

\* C26: with an explicit Dora target directory, the artifacts are looked
\* for in exactly that directory, and the session clones, updates and
\* builds no Dora checkout.
C26_ExplicitTargetUsedAsGiven ==
    (explicit_target /\ scanned_dir # <<>>) =>
        (scanned_dir = d_explicit /\ prepared = {})

\* the bridge artifacts were found in the directory scanned
ArtifactsUsed ==
    /\ scanned_dir # <<>>
    /\ dora_disk[scanned_dir].state = "artifacts"

\* C27: with a pinned revision and no explicit target, the bridge artifacts
\* the build uses are those of the cache entry of that revision, never
\* those of another cache entry or of third_party/dora.
C27_PinnedEntryOnly ==
    (dora_rev # <<>> /\ ~explicit_target /\ ArtifactsUsed) =>
        \A rem \in DoraRemotes : scanned_dir = DoraCachePath(dora_rev, rem)

\* C28: every cache entry the session cloned or updated holds a checkout of
\* the version its name is made from: the pinned revision, or the latest
\* tag when none is pinned.
C28_CheckoutNamedByKey ==
    \A p \in prepared : p.checkout = p.named

\* C29: without a pinned revision every resolution of the cache path within
\* the session gives one directory, and a directory the session prepared is
\* the one it scans for the artifacts and the companion headers.
C29_OneDirectoryPerSession ==
    (dora_rev = <<>> /\ ~explicit_target) =>
        /\ Cardinality(resolved_paths) <= 1
        /\ \A p \in prepared :
              /\ scanned_dir \in {<<>>, p.dir}
              /\ vendor_dir \in {<<>>, p.dir}

(***************************************************************************)
(* Concurrent sessions that resolve the same git dependency:               *)
(* _resolve_git_dependency, dependencies.py lines 82-122, and _git_clone,  *)
(* lines 382-387.  The sessions are separate processes; they share the     *)
(* cache directory and nothing else.  Each statement that looks at or      *)
(* changes the directory is a step of its own.                             *)
(***************************************************************************)
MaxSessions == 3

Sessions == 1..MaxSessions

\* the directory exists only once its clone has ended
CachePathExists_CompleteOnly(entry) == entry = "complete"
\* line 89: cache_path.exists(); a directory that a clone is still filling,
\* or that a failed clone left behind, exists
CachePathExists(entry) == entry # "absent"

\* lines 85-92: the session looks whether the cache directory exists
RaceExists(s) ==
    /\ racePc[s] = "check"
    /\ raceSaw' = [raceSaw EXCEPT ![s] = raceEntry]
    /\ racePc' = [racePc EXCEPT ![s] =
                     IF CachePathExists(raceEntry) THEN "install" ELSE "clone"]
    /\ UNCHANGED <<raceEntry, raceInstall, raceBuilt>>
    /\ UNCHANGED <<sessVars, runVars, tcVars, depVars, discVars, cfgVars,
                   cmdVars, pathVars, reuseVars, arrowVars, doraVars>>

\* lines 91 and 382-387: git clone is started and creates the directory
RaceGitCloneStarts(s) ==
    /\ racePc[s] = "clone"
    /\ racePc' = [racePc EXCEPT ![s] = "cloning"]
    /\ raceEntry' = IF raceEntry = "absent" THEN "partial" ELSE raceEntry
    /\ UNCHANGED <<raceSaw, raceInstall, raceBuilt>>
    /\ UNCHANGED <<sessVars, runVars, tcVars, depVars, discVars, cfgVars,
                   cmdVars, pathVars, reuseVars, arrowVars, doraVars>>

\* line 387: git clone ends; with check=True a failure raises and leaves
\* the session.  A failed clone removes the directory or leaves it, and
\* leaves it while another clone writes into it.
RaceGitCloneEnds(s) ==
    /\ racePc[s] = "cloning"
    /\ \E ok \in BOOLEAN, removed \in BOOLEAN :
        LET alone == \A t \in Sessions \ {s} : racePc[t] # "cloning"
        IN /\ (removed => (~ok /\ alone))
           /\ racePc' = [racePc EXCEPT ![s] = IF ok THEN "install" ELSE "failed"]
           /\ raceEntry' = IF ok THEN "complete"
                           ELSE IF removed THEN "absent"
                           ELSE raceEntry
    /\ UNCHANGED <<raceSaw, raceInstall, raceBuilt>>
    /\ UNCHANGED <<sessVars, runVars, tcVars, depVars, discVars, cfgVars,
                   cmdVars, pathVars, reuseVars, arrowVars, doraVars>>

\* lines 98-122: the install directory is created with parents; when it is
\* empty the dependency is built from the source directory, or set up as
\* header-only (also after a failed build)
RaceInstallStep(s) ==
    /\ racePc[s] = "install"
    /\ racePc' = [racePc EXCEPT ![s] = "done"]
    /\ raceEntry' = IF raceEntry = "absent" THEN "partial" ELSE raceEntry
    /\ IF raceInstall = "populated"
       THEN UNCHANGED <<raceInstall, raceBuilt>>
       ELSE /\ raceInstall' \in {"empty", "populated"}
            /\ raceBuilt' = raceBuilt \cup {s}
    /\ UNCHANGED raceSaw
    /\ UNCHANGED <<sessVars, runVars, tcVars, depVars, discVars, cfgVars,
                   cmdVars, pathVars, reuseVars, arrowVars, doraVars>>

RaceStep(s) ==
    \/ RaceExists(s) \/ RaceGitCloneStarts(s) \/ RaceGitCloneEnds(s)
    \/ RaceInstallStep(s)

InitRace ==
    /\ pc = "dependencies" /\ exc = "none" /\ exitStatus = -1
    /\ artifact = FALSE /\ stageLog = <<>>
    /\ CfgIdle /\ RunIdle /\ TcIdle /\ DepsIdle /\ pkg_config_tool = TRUE
    /\ DiscIdle /\ CmdIdle /\ dependencies = <<>>
    /\ cache_fn = "none" /\ cache_url = <<>> /\ cache_rev = <<>>
    /\ cache_path = <<>> /\ safe_name = <<>>
    /\ remote = [ok |-> FALSE, tags |-> <<>>]
    /\ remote_changed = FALSE /\ repeated = FALSE
    /\ ReuseIdle /\ ArrowIdle /\ DoraIdle
    /\ racePc = [s \in Sessions |-> "check"]
    /\ raceSaw = [s \in Sessions |-> "none"]
    /\ raceEntry \in {"absent", "complete"}
    /\ raceInstall \in (IF raceEntry = "complete"
                        THEN {"absent", "empty", "populated"} ELSE {"absent"})
    /\ raceBuilt = {}

RaceExistsStep == \E s \in Sessions : RaceExists(s)
RaceCloneStartStep == \E s \in Sessions : RaceGitCloneStarts(s)
RaceCloneEndStep == \E s \in Sessions : RaceGitCloneEnds(s)
RaceInstallDirStep == \E s \in Sessions : RaceInstallStep(s)

NextRace ==
    \/ RaceExistsStep \/ RaceCloneStartStep \/ RaceCloneEndStep
    \/ RaceInstallDirStep

SpecRace == InitRace /\ [][NextRace]_vars

\* C30: sessions are not serialized on a cache key.  A session that has
\* not ended can always take its next step, whatever the others do; one
\* that found the directory absent clones into it even when another clone
\* has started since, and one that found a directory still being filled
\* takes it as present and never clones.
C30_SessionsNotSerialized ==
    \A s \in Sessions :
        /\ racePc[s] \in {"check", "clone", "cloning", "install"}
              => ENABLED RaceStep(s)
        /\ racePc[s] \in {"clone", "cloning"} => raceSaw[s] = "absent"
        /\ raceSaw[s] = "partial" => racePc[s] \in {"install", "done"}

\* two sessions found the directory absent and both clone into it, while a
\* third has taken the directory they are filling as present and built
\* from it
C30_Witness ==
    \E a, b, c \in Sessions :
        /\ a # b
        /\ raceSaw[a] = "absent" /\ racePc[a] = "cloning"
        /\ raceSaw[b] = "absent" /\ racePc[b] = "cloning"
        /\ raceSaw[c] = "partial" /\ racePc[c] = "done" /\ c \in raceBuilt

====
